---- MODULE Spec2Model ----
(***************************************************************************)
(* A model of the embedding-atlas backend (packages/backend/embedding_atlas)*)
(*                                                                         *)
(*   - the Range Server      (server.py: parse_range_header, mount_bytes)  *)
(*   - the Query Proxy       (server.py: get_duckdb_connection,            *)
(*                            handle_query, handle_selection)              *)
(*   - the Search Orchestrator's lazy backend                              *)
(*                           (upload_pipeline.py:                          *)
(*                            LazyCombinedEmbeddingPipeline)               *)
(*                                                                         *)
(*   - the search endpoints  (server.py: upload_neighbors, text_neighbors, *)
(*                            point_neighbors, upload_embeddings)          *)
(*   - the Asset Store       (data_source.py: cache_set, cache_get,        *)
(*                            append_feedback, make_archive)               *)
(*                                                                         *)
(* Each component has its own specifications (SpecRange; SpecQuery,        *)
(* SpecFilter, SpecInputs; SpecPipeline, SpecSearch; SpecNeighbors,        *)
(* SpecProjection, SpecBatch; SpecCache; SpecArchive); the variables of    *)
(* the other components stay unchanged under them.                         *)
(***************************************************************************)
EXTENDS Integers, Sequences, FiniteSets, TLC

VARIABLES
    \* ---- Range Server (mount_bytes) ----
    content,        \* the bytes make_content() produces
    cached,         \* lru_cache(maxsize=1) of get_content: <<>> or <<bytes>>
    makeCalls,      \* number of times make_content() ran
    rreq,           \* the last request handled by head()/get()
    rresp,          \* the response to it
    \* ---- Query Proxy ----
    holder,         \* duckdb_connection_holder["conn"]: 0 (None) or a connection
    connLock,       \* duckdb_connection_lock: 0 (free) or the thread holding it
    constructions,  \* number of calls of make_duckdb_connection
    started,        \* number of requests accepted
    named,          \* number of uuid4 file names generated
    fs,             \* the .selection-<uuid>.tmp files that exist
    pc,             \* per worker thread: where its request is
    req,            \* per worker thread: the request
    conn,           \* per worker thread: the local variable conn
    tmp,            \* per worker thread: the local variable filename (0: unset)
    ran,            \* per worker thread: statements passed to cursor.execute
    engineFailed,   \* per worker thread: the engine raised during the request
    resp,           \* per worker thread: the response
    \* ---- clinical feedback (Asset Store journal) ----
    fbCount,        \* number of clinical-feedback requests handled
    fbReq,          \* the last clinical-feedback request
    fbResp,         \* the response to it
    journal,        \* number of lines of <feedback>/clinical.jsonl
    csvRows,        \* number of rows of <feedback>/feedback.csv
    queryImages,    \* number of directories <feedback>/query-images/<id>
    \* ---- Search Orchestrator (LazyCombinedEmbeddingPipeline) ----
    wrapper,        \* make_server's upload_pipeline is a wrapper (not None)
    pipeline,       \* self._pipeline: 0 (None) or 1 (the backend)
    loadExc,        \* self._load_exc is not None
    plLock,         \* self._lock: 0 (free) or the caller holding it
    ctorRuns,       \* number of calls of self._cls(...)
    calls,          \* number of calls and requests begun
    via,            \* per caller: "direct" or the endpoint it serves
    stage,          \* per caller: the wrapper operation it is calling
    epc,            \* per caller: where the caller is
    ensured,        \* per caller: what _ensure_pipeline gave it
    outcome,        \* per caller: what the wrapper operation gave it
    failedBefore,   \* per caller: _load_exc was set when the request began
    sresp,          \* per caller: the endpoint's response
    \* ---- search endpoints: what they pass down and return ----
    cfg,            \* what make_server was given (pipeline, limits, dataset)
    nreq,           \* the request being answered
    passed,         \* the k of each find_nearest_neighbors call it made
    returned,       \* what the last find_nearest_neighbors call returned
    nout,           \* the response
    \* ---- Asset Store: cache ----
    cacheFiles,     \* <cache_path>/<name>: the JSON text stored, per name
    lastWrite,      \* per name: the value of the last post_cache (history)
    creq,           \* the last cache request
    cresp,          \* the response to it
    \* ---- Asset Store: archive export ----
    dirs,           \* which of the cache and feedback directories exist
    imageAssets,    \* data_source.image_assets: per asset, how it resolves
    archive,        \* the last make_archive call: outcome and zip entries
    \* ---- image endpoint (GET /data/images/{column}/{filename}) ----
    imgReq,         \* the asset name the last get_image asked for (0: none)
    imgResp,        \* the response to it
    \* ---- ImageAsset.load under concurrent callers ----
    imageAsset,     \* the fields of one ImageAsset: content, mime, path
    diskFile,       \* the bytes of the file at imageAsset.path
    lpc,            \* per caller: where its load() is
    ldata,          \* per caller: the local variable data
    lmime,          \* per caller: the local variable mime
    lret,           \* per caller: <<>> or <<what load() returned>>
    lreads,         \* per caller: number of read_bytes() of the call
    lmemo,          \* per caller: the asset was memoized when the call began
    \* ---- Image Codec (extract_image_assets) ----
    frame0,         \* the dataframe handed to extract_image_assets
    frame,          \* the dataframe it returns
    registry,       \* the assets it returns: (column, filename) -> ImageAsset
    processedColumns, \* the columns it reports as processed
    extracted,      \* extract_image_assets has run
    \* ---- clinical feedback under concurrent callers ----
    jpc,            \* per caller: where its post_clinical_feedback is
    feedbackLock,   \* feedback_lock: 0 (free) or the caller holding it
    jsonl,          \* the writes that reached clinical.jsonl, in order
    fbDir,          \* the feedback directory exists
    persisted,      \* the callers whose query images were written
    \* ---- event loop and executor ----
    loopTask,       \* the handler on the event loop; blocking: inside a blocking call
    poolTasks,      \* per executor worker: the job it runs ("idle": none)
    backlog,        \* the jobs submitted and waiting for a worker
    served          \* number of requests accepted

rangeVars == <<content, cached, makeCalls, rreq, rresp>>

queryVars == <<holder, connLock, constructions, started, named, fs, pc, req, conn,
               tmp, ran, engineFailed, resp>>

feedbackVars == <<fbCount, fbReq, fbResp, journal, csvRows, queryImages>>

pipelineVars == <<wrapper, pipeline, loadExc, plLock, ctorRuns, calls, via,
                  stage, epc, ensured, outcome, failedBefore, sresp>>

neighborVars == <<cfg, nreq, passed, returned, nout>>

cacheVars == <<cacheFiles, lastWrite, creq, cresp>>

archiveVars == <<dirs, imageAssets, archive>>

imageVars == <<imgReq, imgResp>>

loadVars == <<imageAsset, diskFile, lpc, ldata, lmime, lret, lreads, lmemo>>

codecVars == <<frame0, frame, registry, processedColumns, extracted>>

journalVars == <<jpc, feedbackLock, jsonl, fbDir, persisted>>

loopVars == <<loopTask, poolTasks, backlog, served>>

mediaVars == <<imageVars, loadVars, codecVars, journalVars, loopVars>>

storeVars == <<neighborVars, cacheVars, archiveVars, mediaVars>>

vars == <<rangeVars, queryVars, feedbackVars, pipelineVars, storeVars>>

(***************************************************************************)
(* Bounds                                                                  *)
(***************************************************************************)
MaxBlobLen == 3     \* blobs of 0..MaxBlobLen bytes
MaxOff == 4         \* range offsets 0..MaxOff in the request headers
NThreads == 2       \* worker threads of the executor that are observed
MaxRequests == 3    \* requests accepted in one behaviour
MaxFrags == 2       \* fragments a predicate text is made of
MaxFeedback == 2    \* clinical-feedback requests in one behaviour
MaxCalls == 3       \* calls of the search backend wrapper in one behaviour
MaxRows == 2        \* datasets of 0..MaxRows rows
MaxLimit == 2       \* max_neighbor_results given as 0..MaxLimit
MaxReturned == 2    \* entries in what find_nearest_neighbors returns
MaxFiles == 2       \* files in one upload-embeddings request
MaxBatch == 1       \* ATLAS_UPLOAD_BATCH_LIMIT set to 0..MaxBatch
MaxAssets == 2      \* image assets of the data source

(***************************************************************************)
(* Text: strings are sequences of one-character strings                    *)
(***************************************************************************)
Digits == <<"0", "1", "2", "3", "4", "5", "6", "7", "8", "9">>

IsDigit(c) == \E d \in 1..10 : Digits[d] = c

DigitVal(c) == (CHOOSE d \in 1..10 : Digits[d] = c) - 1

\* int(text) for a non-empty run of decimal digits
RECURSIVE ParseInt(_)
ParseInt(ds) ==
    IF Len(ds) = 0 THEN 0
    ELSE 10 * ParseInt(SubSeq(ds, 1, Len(ds) - 1)) + DigitVal(ds[Len(ds)])

\* str(n) for n >= 0
RECURSIVE ToDigits(_)
ToDigits(n) ==
    IF n < 10 THEN <<Digits[n + 1]>>
    ELSE ToDigits(n \div 10) \o <<Digits[(n % 10) + 1]>>

RECURSIVE SkipSpaces(_, _)
SkipSpaces(s, i) ==
    IF i <= Len(s) /\ s[i] = " " THEN SkipSpaces(s, i + 1) ELSE i

RECURSIVE EndOfDigits(_, _)
EndOfDigits(s, i) ==
    IF i <= Len(s) /\ IsDigit(s[i]) THEN EndOfDigits(s, i + 1) ELSE i

HasPrefixAt(s, i, p) ==
    /\ i + Len(p) - 1 <= Len(s)
    /\ \A j \in 1..Len(p) : s[i + j - 1] = p[j]

CharAt(s, i, c) == i <= Len(s) /\ s[i] = c

BytesWord == <<"b", "y", "t", "e", "s">>

(***************************************************************************)
(* re.match(r"^ *bytes *= *([0-9]+) *- *([0-9]+) *$", value)               *)
(* The pattern has no ambiguity, so a left-to-right scan decides it.       *)
(***************************************************************************)
RangeMatch(value) ==
    LET i1 == SkipSpaces(value, 1)
        i2 == SkipSpaces(value, i1 + Len(BytesWord))
        i3 == SkipSpaces(value, i2 + 1)
        i4 == EndOfDigits(value, i3)
        i5 == SkipSpaces(value, i4)
        i6 == SkipSpaces(value, i5 + 1)
        i7 == EndOfDigits(value, i6)
        i8 == SkipSpaces(value, i7)
        ok == /\ HasPrefixAt(value, i1, BytesWord)
              /\ CharAt(value, i2, "=")
              /\ i4 > i3
              /\ CharAt(value, i5, "-")
              /\ i7 > i6
              /\ i8 = Len(value) + 1
    IN  IF ok
        THEN [matched |-> TRUE,
              g1 |-> SubSeq(value, i3, i4 - 1),
              g2 |-> SubSeq(value, i6, i7 - 1)]
        ELSE [matched |-> FALSE, g1 |-> <<>>, g2 |-> <<>>]

NoRange == [some |-> FALSE, r0 |-> 0, r1 |-> 0]

\* a parse_range_header that takes the header's end as exclusive
parse_range_header_exclusive_end(hasRange, value, content_length) ==
    IF ~hasRange THEN NoRange
    ELSE LET m == RangeMatch(value) IN
         IF ~m.matched THEN NoRange
         ELSE LET r0 == ParseInt(m.g1)
                  r1 == ParseInt(m.g2)
              IN  IF r0 < r1 /\ r0 <= content_length /\ r1 <= content_length
                  THEN [some |-> TRUE, r0 |-> r0, r1 |-> r1]
                  ELSE NoRange

\* a parse_range_header that does not check the end against the length
parse_range_header_unchecked_end(hasRange, value, content_length) ==
    IF ~hasRange THEN NoRange
    ELSE LET m == RangeMatch(value) IN
         IF ~m.matched THEN NoRange
         ELSE LET r0 == ParseInt(m.g1)
                  r1 == ParseInt(m.g2) + 1
              IN  IF r0 < r1 /\ r0 <= content_length
                  THEN [some |-> TRUE, r0 |-> r0, r1 |-> r1]
                  ELSE NoRange

\* parse_range_header(request, content_length): (r0, r1) with r1 exclusive,
\* or None
parse_range_header(hasRange, value, content_length) ==
    IF ~hasRange THEN NoRange
    ELSE LET m == RangeMatch(value) IN
         IF ~m.matched THEN NoRange
         ELSE LET r0 == ParseInt(m.g1)
                  r1 == ParseInt(m.g2) + 1
              IN  IF r0 < r1 /\ r0 <= content_length /\ r1 <= content_length
                  THEN [some |-> TRUE, r0 |-> r0, r1 |-> r1]
                  ELSE NoRange

\* content[r0:r1] of Python, for 0 <= r0 and 0 <= r1 (slices clamp to the length)
Slice(bytes, r0, r1) ==
    LET hi == IF r1 < Len(bytes) THEN r1 ELSE Len(bytes)
    IN  IF r0 >= hi THEN <<>> ELSE SubSeq(bytes, r0 + 1, hi)

\* f"bytes {r0}-{r1 - 1}/{len(content)}"
ContentRangeText(r0, r1, total) ==
    BytesWord \o <<" ">> \o ToDigits(r0) \o <<"-">> \o ToDigits(r1 - 1)
        \o <<"/">> \o ToDigits(total)

(***************************************************************************)
(* Requests to the range endpoint.  wf, s and e record how the header was  *)
(* written (they are not read by the server).                              *)
(***************************************************************************)
Sp == <<" ">>

RangeForms == {"plain", "spaced", "zeros", "noend", "nostart", "unit",
               "trailing", "noequals"}

WellFormedForms == {"plain", "spaced", "zeros"}

RangeText(form, s, e) ==
    CASE form = "plain" ->
            BytesWord \o <<"=">> \o ToDigits(s) \o <<"-">> \o ToDigits(e)
      [] form = "spaced" ->
            Sp \o BytesWord \o Sp \o <<"=">> \o Sp \o Sp \o ToDigits(s) \o Sp
               \o <<"-">> \o Sp \o ToDigits(e) \o Sp
      [] form = "zeros" ->
            BytesWord \o <<"=">> \o <<"0">> \o ToDigits(s) \o <<"-">>
               \o <<"0", "0">> \o ToDigits(e)
      [] form = "noend" ->
            BytesWord \o <<"=">> \o ToDigits(s) \o <<"-">>
      [] form = "nostart" ->
            BytesWord \o <<"=">> \o <<"-">> \o ToDigits(e)
      [] form = "unit" ->
            <<"i", "t", "e", "m", "s">> \o <<"=">> \o ToDigits(s) \o <<"-">>
               \o ToDigits(e)
      [] form = "trailing" ->
            BytesWord \o <<"=">> \o ToDigits(s) \o <<"-">> \o ToDigits(e)
               \o <<",">>
      [] form = "noequals" ->
            BytesWord \o Sp \o ToDigits(s) \o <<"-">> \o ToDigits(e)

NoHeader == [hasRange |-> FALSE, value |-> <<>>, wf |-> FALSE, s |-> 0, e |-> 0]

RangeHeaders ==
    {NoHeader} \cup
    {[hasRange |-> TRUE, value |-> RangeText(f, s, e),
      wf |-> (f \in WellFormedForms), s |-> s, e |-> e] :
        f \in RangeForms, s \in 0..MaxOff, e \in 0..MaxOff}

Blob(len, seed) == [i \in 1..len |-> (seed + 7 * i) % 256]

Blobs == {Blob(len, seed) : len \in 0..MaxBlobLen, seed \in {0, 250}}

NoResponse == [method |-> "none", status |-> 0, body |-> <<>>,
               contentLength |-> 0, hasContentRange |-> FALSE,
               contentRange |-> <<>>]

(***************************************************************************)
(* mount_bytes                                                             *)
(***************************************************************************)
\* get_content(): lru_cache(maxsize=1) around make_content()
get_content == IF cached = <<>> THEN content ELSE cached[1]

\* a get_content without the lru_cache: make_content() runs on every call
GetContentEveryTime ==
    /\ cached' = <<content>>
    /\ makeCalls' = makeCalls + 1

GetContentEffect ==
    /\ cached' = <<get_content>>
    /\ makeCalls' = IF cached = <<>> THEN makeCalls + 1 ELSE makeCalls

\* @app.head(url)
head(h) ==
    /\ GetContentEffect
    /\ LET c == get_content
           bytes_range == parse_range_header(h.hasRange, h.value, Len(c))
           length == IF ~bytes_range.some THEN Len(c)
                     ELSE bytes_range.r1 - bytes_range.r0
       IN  rresp' = [method |-> "HEAD", status |-> 200, body |-> <<>>,
                     contentLength |-> length, hasContentRange |-> FALSE,
                     contentRange |-> <<>>]
    /\ rreq' = h
    /\ UNCHANGED content

\* @app.get(url)
get(h) ==
    /\ GetContentEffect
    /\ LET c == get_content
           bytes_range == parse_range_header(h.hasRange, h.value, Len(c))
       IN  IF ~bytes_range.some
           THEN rresp' = [method |-> "GET", status |-> 200, body |-> c,
                          contentLength |-> Len(c), hasContentRange |-> FALSE,
                          contentRange |-> <<>>]
           ELSE LET r0 == bytes_range.r0
                    r1 == bytes_range.r1
                    result == Slice(c, r0, r1)
                IN  rresp' = [method |-> "GET", status |-> 206,
                              body |-> result,
                              contentLength |-> r1 - r0,
                              hasContentRange |-> TRUE,
                              contentRange |-> ContentRangeText(r0, r1, Len(c))]
    /\ rreq' = h
    /\ UNCHANGED content

HeadRequest == \E h \in RangeHeaders : head(h)

GetRequest == \E h \in RangeHeaders : get(h)

(***************************************************************************)
(* Query Proxy: texts                                                      *)
(***************************************************************************)
\* str.lower() on the characters that occur in the predicates of the model
Lower(c) ==
    CASE c = "A" -> "a" [] c = "C" -> "c" [] c = "H" -> "h" [] c = "O" -> "o"
      [] c = "P" -> "p" [] c = "T" -> "t" [] c = "Y" -> "y"
      [] OTHER -> c

lower(s) == [i \in 1..Len(s) |-> Lower(s[i])]

\* sub in s
Contains(s, sub) == \E i \in 1..(Len(s) - Len(sub) + 1) : HasPrefixAt(s, i, sub)

\* _is_safe_predicate(predicate), for a predicate that is not None
is_safe_predicate(predicate) ==
    LET lowered == lower(predicate) IN
    IF Contains(predicate, <<";">>) THEN FALSE
    ELSE IF \/ Contains(predicate, <<"-", "-">>)
            \/ Contains(predicate, <<"/", "*">>)
            \/ Contains(predicate, <<"*", "/">>)
    THEN FALSE
    ELSE IF \/ Contains(lowered, <<"a", "t", "t", "a", "c", "h", " ">>)
            \/ Contains(lowered, <<"c", "o", "p", "y", " ">>)
    THEN FALSE
    ELSE TRUE

(***************************************************************************)
(* Query Proxy: requests                                                   *)
(***************************************************************************)
Threads == 1..NThreads

Fragments ==
    { <<"a", "g", "e", ">", "3">>, <<" ">>, <<"\t">>, <<"(">>, <<";">>,
      <<"-">>, <<"/">>, <<"*">>,
      <<"a", "t", "t", "a", "c", "h">>, <<"A", "T", "T", "A", "C", "H">>,
      <<"c", "o", "p", "y">>, <<"C", "o", "p", "Y">> }

RECURSIVE Texts(_)
Texts(n) ==
    IF n = 0 THEN {<<>>}
    ELSE LET shorter == Texts(n - 1)
         IN  shorter \cup {t \o f : t \in shorter, f \in Fragments}

\* the predicate texts of the filter's specification
Predicates == Texts(MaxFrags) \ {<<>>}

Formats == {"json", "jsonl", "csv", "parquet"}

RequestedFormats == Formats \cup {"xml"}

QueryTypes == {"exec", "arrow", "json"}

RequestedTypes == QueryTypes \cup {"explain"}

Sqls == {"SELECT count(*) FROM dataset", "DROP TABLE dataset"}

NoRequest ==
    [endpoint |-> "none", json |-> "none", sql |-> "", type |-> "",
     format |-> "", hasPredicate |-> FALSE, predicate |-> <<>>]

\* a body that json.loads rejects
MalformedBody(endpoint) == [NoRequest EXCEPT !.endpoint = endpoint,
                                             !.json = "malformed"]

QueryBody(endpoint, sql, type) ==
    [NoRequest EXCEPT !.endpoint = endpoint, !.json = "object",
                      !.sql = sql, !.type = type]

SelectionBody(format, hasPredicate, predicate) ==
    [NoRequest EXCEPT !.endpoint = "post_selection", !.json = "object",
                      !.format = format, !.hasPredicate = hasPredicate,
                      !.predicate = predicate]

QueryEndpoints == {"get_query", "post_query"}

QueryRequests(types) ==
    {QueryBody(ep, sql, ty) : ep \in QueryEndpoints, sql \in Sqls, ty \in types}
    \cup {MalformedBody(ep) : ep \in QueryEndpoints}

SelectionRequests(formats, predicates) ==
    {SelectionBody(f, TRUE, p) : f \in formats, p \in predicates}
    \cup {SelectionBody(f, FALSE, <<>>) : f \in formats}
    \cup {MalformedBody("post_selection")}

NoStatement == [op |-> "none", sql |-> "", filtered |-> FALSE,
                predicate |-> <<>>, file |-> 0, format |-> ""]

SqlStatement(sql) == [NoStatement EXCEPT !.op = "sql", !.sql = sql]

\* f"COPY (SELECT * FROM dataset WHERE {predicate}) TO '{filename}' {formats[format]}"
\* f"COPY dataset TO '{filename}' {formats[format]}"
CopyStatement(hasPredicate, predicate, file, format) ==
    [NoStatement EXCEPT !.op = "copy", !.filtered = hasPredicate,
                        !.predicate = predicate, !.file = file,
                        !.format = format]

NoReply == [status |-> 0, body |-> "none", escaped |-> FALSE]

\* JSONResponse({"error": ...}, status_code=status)
ErrorReply(status) == [status |-> status, body |-> "json_error",
                       escaped |-> FALSE]

\* Response(buffer) / JSONResponse({})
DataReply == [status |-> 200, body |-> "data", escaped |-> FALSE]

\* an exception left the handler: the framework answers 500 with no JSON body
EscapedReply == [status |-> 500, body |-> "internal_server_error",
                 escaped |-> TRUE]

(***************************************************************************)
(* Query Proxy: handlers                                                   *)
(* A request runs on the event loop (json.loads) and then on a worker      *)
(* thread t of the executor (handle_query, handle_selection).              *)
(***************************************************************************)
QueryIdle ==
    /\ holder = 0
    /\ connLock = 0
    /\ constructions = 0
    /\ started = 0
    /\ named = 0
    /\ fs = {}
    /\ pc = [t \in Threads |-> "idle"]
    /\ req = [t \in Threads |-> NoRequest]
    /\ conn = [t \in Threads |-> 0]
    /\ tmp = [t \in Threads |-> 0]
    /\ ran = [t \in Threads |-> <<>>]
    /\ engineFailed = [t \in Threads |-> FALSE]
    /\ resp = [t \in Threads |-> NoReply]

Reply(t, r) ==
    /\ resp' = [resp EXCEPT ![t] = r]
    /\ pc' = [pc EXCEPT ![t] = "done"]

\* get_query / post_query / post_selection: data = json.loads(body), then
\* run_in_executor(executor, lambda: handle_...(data))
Accept(t, r) ==
    /\ pc[t] = "idle"
    /\ started < MaxRequests
    /\ started' = started + 1
    /\ req' = [req EXCEPT ![t] = r]
    /\ IF r.json = "malformed"
       THEN Reply(t, EscapedReply)
       ELSE /\ pc' = [pc EXCEPT ![t] =
                         IF r.endpoint = "post_selection" THEN "selection"
                         ELSE "query"]
            /\ UNCHANGED resp
    /\ UNCHANGED <<holder, connLock, constructions, named, fs, conn, tmp,
                   ran, engineFailed>>

\* handle_query up to conn = get_duckdb_connection()
QueryStart(t) ==
    /\ pc[t] = "query"
    /\ pc' = [pc EXCEPT ![t] = "conn_check"]
    /\ UNCHANGED <<holder, connLock, constructions, started, named, fs, req, conn,
                   tmp, ran, engineFailed, resp>>

\* handle_selection up to conn = get_duckdb_connection()
SelectionStart(t) ==
    /\ pc[t] = "selection"
    /\ IF req[t].format \notin Formats
       THEN Reply(t, ErrorReply(400))
       ELSE IF req[t].hasPredicate /\ ~is_safe_predicate(req[t].predicate)
       THEN Reply(t, ErrorReply(400))
       ELSE /\ pc' = [pc EXCEPT ![t] = "conn_check"]
            /\ UNCHANGED resp
    /\ UNCHANGED <<holder, connLock, constructions, started, named, fs, req, conn,
                   tmp, ran, engineFailed>>

AfterConnection(t) ==
    IF req[t].endpoint = "post_selection" THEN "copy" ELSE "execute"

\* get_duckdb_connection: conn = holder["conn"]; if conn is not None: return
ConnCheck(t) ==
    /\ pc[t] = "conn_check"
    /\ conn' = [conn EXCEPT ![t] = holder]
    /\ pc' = [pc EXCEPT ![t] =
                 IF holder # 0 THEN AfterConnection(t) ELSE "conn_lock"]
    /\ UNCHANGED <<holder, connLock, constructions, started, named, fs, req, tmp,
                   ran, engineFailed, resp>>

\* get_duckdb_connection: with duckdb_connection_lock (acquire)
ConnLock(t) ==
    /\ pc[t] = "conn_lock"
    /\ connLock = 0
    /\ connLock' = t
    /\ pc' = [pc EXCEPT ![t] = "conn_locked"]
    /\ UNCHANGED <<holder, constructions, started, named, fs, req, conn, tmp, ran,
                   engineFailed, resp>>

\* get_duckdb_connection: the body of the with block and the release; ok is
\* whether make_duckdb_connection returns (TRUE) or raises (FALSE)
ConnLocked(t, ok) ==
    /\ pc[t] = "conn_locked"
    /\ connLock' = 0
    /\ IF holder # 0
       THEN /\ ok
            /\ conn' = [conn EXCEPT ![t] = holder]
            /\ pc' = [pc EXCEPT ![t] = AfterConnection(t)]
            /\ UNCHANGED <<holder, constructions, engineFailed, resp>>
       ELSE /\ constructions' = constructions + 1
            /\ IF ok
               THEN /\ holder' = constructions + 1
                    /\ conn' = [conn EXCEPT ![t] = constructions + 1]
                    /\ pc' = [pc EXCEPT ![t] = AfterConnection(t)]
                    /\ UNCHANGED <<engineFailed, resp>>
               ELSE \* the exception leaves get_duckdb_connection and the
                    \* handler, which calls it outside its try block
                    /\ engineFailed' = [engineFailed EXCEPT ![t] = TRUE]
                    /\ Reply(t, EscapedReply)
                    /\ UNCHANGED <<holder, conn>>
    /\ UNCHANGED <<started, named, fs, req, tmp, ran>>

\* handle_query: cursor.execute(sql) and the branch on command; ok is whether
\* the engine runs the statement and serializes its result
Execute(t, ok) ==
    /\ pc[t] = "execute"
    /\ ran' = [ran EXCEPT ![t] = Append(@, SqlStatement(req[t].sql))]
    /\ IF ~ok
       THEN /\ engineFailed' = [engineFailed EXCEPT ![t] = TRUE]
            /\ Reply(t, ErrorReply(500))
       ELSE /\ UNCHANGED engineFailed
            /\ IF req[t].type \in QueryTypes
               THEN Reply(t, DataReply)
               ELSE \* raise ValueError(f"Unknown command {command}")
                    Reply(t, ErrorReply(500))
    /\ UNCHANGED <<holder, connLock, constructions, started, named, fs, req, conn,
                   tmp>>

\* handle_selection: filename = ".selection-" + uuid4 + ".tmp" and
\* cursor.execute(COPY ...); ok is whether the engine completes the copy,
\* written whether the file exists afterwards when it does not
Copy(t, ok, written) ==
    /\ pc[t] = "copy"
    /\ (ok => written)
    /\ named' = named + 1
    /\ tmp' = [tmp EXCEPT ![t] = named + 1]
    /\ ran' = [ran EXCEPT ![t] =
                  Append(@, CopyStatement(req[t].hasPredicate,
                                          req[t].predicate, named + 1,
                                          req[t].format))]
    /\ fs' = IF written THEN fs \cup {named + 1} ELSE fs
    /\ IF ok
       THEN /\ pc' = [pc EXCEPT ![t] = "read"]
            /\ UNCHANGED <<engineFailed, resp>>
       ELSE /\ engineFailed' = [engineFailed EXCEPT ![t] = TRUE]
            /\ resp' = [resp EXCEPT ![t] = ErrorReply(500)]
            /\ pc' = [pc EXCEPT ![t] = "unlink"]
    /\ UNCHANGED <<holder, connLock, constructions, started, req, conn>>

\* handle_selection: with open(filename, "rb") as f: buffer = f.read();
\* ok is whether the file can be opened and read
ReadBack(t, ok) ==
    /\ pc[t] = "read"
    /\ resp' = [resp EXCEPT ![t] = IF ok THEN DataReply ELSE ErrorReply(500)]
    /\ pc' = [pc EXCEPT ![t] = "unlink"]
    /\ UNCHANGED <<holder, connLock, constructions, started, named, fs, req, conn,
                   tmp, ran, engineFailed>>

\* os.unlink(filename)
unlink(files, name) == files \ {name}

\* a handle_selection that removes the file at the end of the try block
\* instead of in a finally clause
UnlinkAfterSuccessOnly(t) ==
    /\ pc[t] = "unlink"
    /\ fs' = IF resp[t] = DataReply THEN unlink(fs, tmp[t]) ELSE fs
    /\ pc' = [pc EXCEPT ![t] = "done"]
    /\ UNCHANGED <<holder, connLock, constructions, started, named, req, conn,
                   tmp, ran, engineFailed, resp>>

\* handle_selection: finally: os.unlink(filename), then the return
Unlink(t) ==
    /\ pc[t] = "unlink"
    /\ fs' = unlink(fs, tmp[t])
    /\ pc' = [pc EXCEPT ![t] = "done"]
    /\ UNCHANGED <<holder, connLock, constructions, started, named, req, conn, tmp,
                   ran, engineFailed, resp>>

\* the response has been sent; the worker thread takes the next request
Finish(t) ==
    /\ pc[t] = "done"
    /\ pc' = [pc EXCEPT ![t] = "idle"]
    /\ req' = [req EXCEPT ![t] = NoRequest]
    /\ conn' = [conn EXCEPT ![t] = 0]
    /\ tmp' = [tmp EXCEPT ![t] = 0]
    /\ ran' = [ran EXCEPT ![t] = <<>>]
    /\ engineFailed' = [engineFailed EXCEPT ![t] = FALSE]
    /\ resp' = [resp EXCEPT ![t] = NoReply]
    /\ UNCHANGED <<holder, connLock, constructions, started, named, fs>>

\* the requests of the concurrent specification
ConcurrentRequests ==
    { QueryBody("post_query", "SELECT count(*) FROM dataset", "json"),
      SelectionBody("csv", FALSE, <<>>),
      SelectionBody("parquet", TRUE, <<"a", "g", "e", ">", "3">>) }

AcceptConcurrent(t) ==
    /\ pc[t] = "idle"
    /\ \E r \in ConcurrentRequests : Accept(t, r)

\* the requests of the input-validation specification
InputRequests ==
    QueryRequests(RequestedTypes)
    \cup SelectionRequests(RequestedFormats,
                          { <<"a", "g", "e", ">", "3">>,
                            <<"a", "g", "e", ">", "3", ";">> })

AcceptInput(t) ==
    /\ pc[t] = "idle"
    /\ \E r \in InputRequests : Accept(t, r)

AcceptFiltered(t) ==
    /\ pc[t] = "idle"
    /\ started < MaxRequests
    /\ \E r \in SelectionRequests(RequestedFormats, Predicates) : Accept(t, r)

Connect(t) == \E ok \in BOOLEAN : ConnLocked(t, ok)

ExecuteQuery(t) == \E ok \in BOOLEAN : Execute(t, ok)

CopySelection(t) == \E ok \in BOOLEAN, written \in BOOLEAN : Copy(t, ok, written)

ReadSelection(t) == \E ok \in BOOLEAN : ReadBack(t, ok)

(***************************************************************************)
(* POST /data/clinical-feedback                                            *)
(* The handler is a coroutine without an await after request.json(), so    *)
(* it runs on the event loop in one step.                                  *)
(***************************************************************************)
FeedbackBodies ==
    {[json |-> j, hasQueryRow |-> q] :
        j \in {"malformed", "array", "object"}, q \in BOOLEAN}

\* where the storage fails: nowhere, base_dir.mkdir, open/write of an image,
\* the append to clinical.jsonl
StorageFailures == {"none", "mkdir", "write", "journal"}

\* the methods class DataSource defines
DataSourceMethods ==
    {"cache_set", "cache_get", "append_feedback", "make_archive",
     "get_image_asset"}

NoFeedbackRequest ==
    [json |-> "none", hasQueryRow |-> FALSE, failure |-> "none"]

FeedbackIdle ==
    /\ fbCount = 0
    /\ fbReq = NoFeedbackRequest
    /\ fbResp = NoReply
    /\ journal = 0
    /\ csvRows = 0
    /\ queryImages = 0

\* post_clinical_feedback
post_clinical_feedback(body, failure) ==
    /\ fbCount < MaxFeedback
    /\ fbCount' = fbCount + 1
    /\ fbReq' = [json |-> body.json, hasQueryRow |-> body.hasQueryRow,
                 failure |-> failure]
    /\ IF body.json = "malformed"
       THEN /\ fbResp' = ErrorReply(400)
            /\ failure = "none"
            /\ UNCHANGED <<journal, csvRows, queryImages>>
       ELSE IF body.json # "object"
       THEN /\ fbResp' = ErrorReply(400)
            /\ failure = "none"
            /\ UNCHANGED <<journal, csvRows, queryImages>>
       ELSE \* try: with feedback_lock: ... except Exception: 500
            LET stored == failure = "none"
                \* data_source.append_feedback_csv(...) is reached when
                \* nothing before it raised; the attribute lookup raises
                \* AttributeError when DataSource has no such method
                summarised ==
                    stored /\ "append_feedback_csv" \in DataSourceMethods
            IN  /\ (failure \in {"mkdir", "write"} => body.hasQueryRow)
                /\ queryImages' =
                      IF body.hasQueryRow /\ failure # "mkdir"
                      THEN queryImages + 1 ELSE queryImages
                /\ journal' = IF stored THEN journal + 1 ELSE journal
                /\ csvRows' = IF summarised THEN csvRows + 1 ELSE csvRows
                /\ fbResp' = IF summarised THEN DataReply
                             ELSE ErrorReply(500)

PostClinicalFeedback ==
    \E body \in FeedbackBodies, failure \in StorageFailures :
        post_clinical_feedback(body, failure)

(***************************************************************************)
(* Search Orchestrator: LazyCombinedEmbeddingPipeline and the endpoints    *)
(* that call it.  Callers are Python threads.  An endpoint is a coroutine  *)
(* that calls the wrapper without awaiting, so the event loop runs one     *)
(* endpoint request at a time; direct callers of the class are not         *)
(* restricted.                                                             *)
(***************************************************************************)
\* the operations LazyCombinedEmbeddingPipeline defines
WrapperOps == {"search_image", "find_nearest_neighbors", "embed_bytes",
               "project_vector"}

SearchEndpoints == {"upload_neighbors", "text_neighbors"}

PipelineIdle ==
    /\ pipeline = 0
    /\ loadExc = FALSE
    /\ plLock = 0
    /\ ctorRuns = 0
    /\ calls = 0
    /\ via = [c \in Threads |-> "none"]
    /\ stage = [c \in Threads |-> "none"]
    /\ epc = [c \in Threads |-> "idle"]
    /\ ensured = [c \in Threads |-> "none"]
    /\ outcome = [c \in Threads |-> "none"]
    /\ failedBefore = [c \in Threads |-> FALSE]
    /\ sresp = [c \in Threads |-> NoReply]

LoopFree == \A c \in Threads : via[c] \notin SearchEndpoints

Begin(c, v, op, at) ==
    /\ calls' = calls + 1
    /\ via' = [via EXCEPT ![c] = v]
    /\ stage' = [stage EXCEPT ![c] = op]
    /\ epc' = [epc EXCEPT ![c] = at]
    /\ failedBefore' = [failedBefore EXCEPT ![c] = loadExc]

Respond(c, r) ==
    /\ sresp' = [sresp EXCEPT ![c] = r]
    /\ epc' = [epc EXCEPT ![c] = "done"]

\* a thread calls wrapper.op(...) itself
BeginDirect(c, op) ==
    /\ epc[c] = "idle"
    /\ calls < MaxCalls
    /\ wrapper
    /\ Begin(c, "direct", op, "check")
    /\ UNCHANGED <<wrapper, pipeline, loadExc, plLock, ctorRuns, ensured,
                   outcome, sresp>>

\* upload_neighbors up to upload_pipeline.embed_bytes(contents); readOk is
\* whether file.read() returns
BeginUpload(c, readOk) ==
    /\ epc[c] = "idle"
    /\ calls < MaxCalls
    /\ LoopFree
    /\ IF ~wrapper
       THEN /\ readOk
            /\ Begin(c, "upload_neighbors", "none", "done")
            /\ sresp' = [sresp EXCEPT ![c] = ErrorReply(404)]
       ELSE IF ~readOk
       THEN /\ Begin(c, "upload_neighbors", "none", "done")
            /\ sresp' = [sresp EXCEPT ![c] = ErrorReply(400)]
       ELSE /\ Begin(c, "upload_neighbors", "embed_bytes", "check")
            /\ UNCHANGED sresp
    /\ UNCHANGED <<wrapper, pipeline, loadExc, plLock, ctorRuns, ensured,
                   outcome>>

\* text_neighbors up to upload_pipeline.encode_text(str(q)); emptyQ is
\* whether q is blank
BeginText(c, emptyQ) ==
    /\ epc[c] = "idle"
    /\ calls < MaxCalls
    /\ LoopFree
    /\ IF ~wrapper
       THEN /\ ~emptyQ
            /\ Begin(c, "text_neighbors", "none", "done")
            /\ sresp' = [sresp EXCEPT ![c] = ErrorReply(404)]
       ELSE IF emptyQ
       THEN /\ Begin(c, "text_neighbors", "none", "done")
            /\ sresp' = [sresp EXCEPT ![c] = DataReply]
       ELSE /\ Begin(c, "text_neighbors", "encode_text", "invoke")
            /\ UNCHANGED sresp
    /\ UNCHANGED <<wrapper, pipeline, loadExc, plLock, ctorRuns, ensured,
                   outcome>>

\* _ensure_pipeline: the two checks before the lock
EnsureCheck(c) ==
    /\ epc[c] = "check"
    /\ IF pipeline # 0
       THEN /\ ensured' = [ensured EXCEPT ![c] = "backend"]
            /\ epc' = [epc EXCEPT ![c] = "invoke"]
            /\ UNCHANGED outcome
       ELSE IF loadExc
       THEN /\ ensured' = [ensured EXCEPT ![c] = "RuntimeError"]
            /\ outcome' = [outcome EXCEPT ![c] = "RuntimeError"]
            /\ epc' = [epc EXCEPT ![c] = "returned"]
       ELSE /\ epc' = [epc EXCEPT ![c] = "lock"]
            /\ UNCHANGED <<ensured, outcome>>
    /\ UNCHANGED <<wrapper, pipeline, loadExc, plLock, ctorRuns, calls, via,
                   stage, failedBefore, sresp>>

\* _ensure_pipeline: with self._lock (acquire)
EnsureLock(c) ==
    /\ epc[c] = "lock"
    /\ plLock = 0
    /\ plLock' = c
    /\ epc' = [epc EXCEPT ![c] = "locked"]
    /\ UNCHANGED <<wrapper, pipeline, loadExc, ctorRuns, calls, via, stage,
                   ensured, outcome, failedBefore, sresp>>

\* an _ensure_pipeline that constructs without looking again under the lock
EnsureLockedNoRecheck(c, ok) ==
    /\ epc[c] = "locked"
    /\ plLock' = 0
    /\ ctorRuns' = ctorRuns + 1
    /\ IF ok
       THEN /\ pipeline' = 1
            /\ ensured' = [ensured EXCEPT ![c] = "backend"]
            /\ epc' = [epc EXCEPT ![c] = "invoke"]
            /\ UNCHANGED <<loadExc, outcome>>
       ELSE /\ loadExc' = TRUE
            /\ ensured' = [ensured EXCEPT ![c] = "RuntimeError"]
            /\ outcome' = [outcome EXCEPT ![c] = "RuntimeError"]
            /\ epc' = [epc EXCEPT ![c] = "returned"]
            /\ UNCHANGED pipeline
    /\ UNCHANGED <<wrapper, calls, via, stage, failedBefore, sresp>>

\* _ensure_pipeline: the body of the with block, the release and the
\* return; ok is whether self._cls(...) returns (TRUE) or raises (FALSE)
EnsureLocked(c, ok) ==
    /\ epc[c] = "locked"
    /\ plLock' = 0
    /\ IF pipeline = 0 /\ ~loadExc
       THEN /\ ctorRuns' = ctorRuns + 1
            /\ IF ok
               THEN /\ pipeline' = 1
                    /\ ensured' = [ensured EXCEPT ![c] = "backend"]
                    /\ epc' = [epc EXCEPT ![c] = "invoke"]
                    /\ UNCHANGED <<loadExc, outcome>>
               ELSE /\ loadExc' = TRUE
                    /\ ensured' = [ensured EXCEPT ![c] = "RuntimeError"]
                    /\ outcome' = [outcome EXCEPT ![c] = "RuntimeError"]
                    /\ epc' = [epc EXCEPT ![c] = "returned"]
                    /\ UNCHANGED pipeline
       ELSE \* return self._pipeline, which is None when _load_exc is set
            /\ ok
            /\ ensured' = [ensured EXCEPT ![c] =
                              IF pipeline # 0 THEN "backend" ELSE "None"]
            /\ epc' = [epc EXCEPT ![c] = "invoke"]
            /\ UNCHANGED <<pipeline, loadExc, ctorRuns, outcome>>
    /\ UNCHANGED <<wrapper, calls, via, stage, failedBefore, sresp>>

\* the attribute lookup and the call: wrapper.encode_text (not defined by
\* the wrapper), or self._ensure_pipeline().<op>(...); ok is whether the
\* backend's operation returns
Invoke(c, ok) ==
    /\ epc[c] = "invoke"
    /\ IF stage[c] \notin WrapperOps \/ ensured[c] = "None"
       THEN /\ ok
            /\ outcome' = [outcome EXCEPT ![c] = "AttributeError"]
       ELSE outcome' = [outcome EXCEPT ![c] =
                           IF ok THEN "value" ELSE "BackendError"]
    /\ epc' = [epc EXCEPT ![c] = "returned"]
    /\ UNCHANGED <<wrapper, pipeline, loadExc, plLock, ctorRuns, calls, via,
                   stage, ensured, failedBefore, sresp>>

\* the caller continues with what the operation gave it
Continue(c) ==
    /\ epc[c] = "returned"
    /\ IF via[c] = "direct"
       THEN /\ epc' = [epc EXCEPT ![c] = "done"]
            /\ UNCHANGED <<stage, sresp, outcome, ensured>>
       ELSE IF stage[c] = "project_vector"
       THEN \* an exception of project_vector leaves coords = None
            /\ Respond(c, DataReply)
            /\ UNCHANGED <<stage, outcome, ensured>>
       ELSE IF outcome[c] # "value"
       THEN \* except Exception as exc: JSONResponse(..., status_code=500)
            /\ Respond(c, ErrorReply(500))
            /\ UNCHANGED <<stage, outcome, ensured>>
       ELSE /\ stage' = [stage EXCEPT ![c] =
                            IF stage[c] \in {"embed_bytes", "encode_text"}
                            THEN "find_nearest_neighbors"
                            ELSE "project_vector"]
            /\ epc' = [epc EXCEPT ![c] = "check"]
            /\ outcome' = [outcome EXCEPT ![c] = "none"]
            /\ ensured' = [ensured EXCEPT ![c] = "none"]
            /\ UNCHANGED sresp
    /\ UNCHANGED <<wrapper, pipeline, loadExc, plLock, ctorRuns, calls, via,
                   failedBefore>>

\* the call has returned to its caller
FinishCall(c) ==
    /\ epc[c] = "done"
    /\ epc' = [epc EXCEPT ![c] = "idle"]
    /\ via' = [via EXCEPT ![c] = "none"]
    /\ stage' = [stage EXCEPT ![c] = "none"]
    /\ ensured' = [ensured EXCEPT ![c] = "none"]
    /\ outcome' = [outcome EXCEPT ![c] = "none"]
    /\ failedBefore' = [failedBefore EXCEPT ![c] = FALSE]
    /\ sresp' = [sresp EXCEPT ![c] = NoReply]
    /\ UNCHANGED <<wrapper, pipeline, loadExc, plLock, ctorRuns, calls>>

DirectCall(c) == \E op \in WrapperOps : BeginDirect(c, op)

UploadNeighbors(c) == \E readOk \in BOOLEAN : BeginUpload(c, readOk)

TextNeighbors(c) == \E emptyQ \in BOOLEAN : BeginText(c, emptyQ)

Construct(c) == \E ok \in BOOLEAN : EnsureLocked(c, ok)

InvokeBackend(c) == \E ok \in BOOLEAN : Invoke(c, ok)

(***************************************************************************)
(* The search endpoints: what they pass to the backend and what they       *)
(* return.  Each endpoint is a coroutine on the event loop, so one request *)
(* is answered at a time; the outcome of every call it makes (the upload's *)
(* read, the backend's operations, the projection model) is an input.      *)
(* The backend itself (CombinedEmbeddingPipeline) is imported from outside *)
(* this package, so what it returns is any list of (index, distance).      *)
(***************************************************************************)
max(a, b) == IF a >= b THEN a ELSE b

min(a, b) == IF a <= b THEN a ELSE b

\* make_server's upload_pipeline: None, the LazyCombinedEmbeddingPipeline
\* that create_upload_pipeline returns, or an object that provides the
\* backend's operations itself
PipelineKinds == {"none", "lazy", "direct"}

\* max_neighbor_results = max(1, int(max_neighbor_results))
max_neighbor_results(raw) == max(1, raw)

Configs ==
    [pipe : PipelineKinds,
     maxResults : {max_neighbor_results(raw) : raw \in 0..MaxLimit},
     rows : 0..MaxRows,
     model : BOOLEAN,
     columns : BOOLEAN]

\* make_server's defaults with no pipeline and an empty dataset
DefaultConfig ==
    [pipe |-> "none", maxResults |-> 1, rows |-> 0, model |-> FALSE,
     columns |-> FALSE]

\* dataset_df[id_column].tolist(): row index i (from 0) has identifier 11 + i
id_values == [i \in 1..cfg.rows |-> 10 + i]

\* list[i] of Python, i from 0, a negative i counting from the end
item(list, i) == IF i >= 0 THEN list[i + 1] ELSE list[Len(list) + i + 1]

\* _json_scalar(value) for an int: isinstance(value, json_scalar_types)
json_scalar(value) == value

\* hasattr(upload_pipeline, op)
has_operation(op) == cfg.pipe = "direct" \/ op \in WrapperOps

\* a search limit that is not capped by max_neighbor_results
search_limit_uncapped(k) == max(1, k)

\* max(1, min(int(k), max_neighbor_results))
search_limit(k) == max(1, min(k, cfg.maxResults))

\* not (idx < 0 or idx >= n)
valid_index(idx, n) == ~(idx < 0 \/ idx >= n)

\* the loop over zip(indices, distances) of upload_neighbors and
\* text_neighbors
RECURSIVE neighbor_list(_, _)
neighbor_list(results, i) ==
    IF i > Len(results) THEN <<>>
    ELSE IF ~valid_index(results[i].idx, cfg.rows)
    THEN neighbor_list(results, i + 1)
    ELSE <<[id |-> json_scalar(IF cfg.columns
                                THEN item(id_values, results[i].idx)
                                ELSE results[i].idx),
            rowIndex |-> json_scalar(results[i].idx),
            distance |-> results[i].dist]>>
         \o neighbor_list(results, i + 1)

\* a self test that never matches
is_self_never(neighbor_id, actual_identifier) == FALSE

\* neighbor_id == actual_identifier
is_self(neighbor_id, actual_identifier) == neighbor_id = actual_identifier

\* the loop of point_neighbors, which stops at `limit` neighbors; hit is
\* whether it stopped there
RECURSIVE point_neighbor_list(_, _, _, _, _)
point_neighbor_list(results, i, actual_identifier, limit, neighbors) ==
    IF i > Len(results) THEN [neighbors |-> neighbors, hit |-> FALSE]
    ELSE IF ~valid_index(results[i].idx, Len(id_values))
    THEN point_neighbor_list(results, i + 1, actual_identifier, limit,
                             neighbors)
    ELSE IF is_self(item(id_values, results[i].idx), actual_identifier)
    THEN point_neighbor_list(results, i + 1, actual_identifier, limit,
                             neighbors)
    ELSE LET more == Append(neighbors,
                        [id |-> json_scalar(item(id_values, results[i].idx)),
                         distance |-> results[i].dist])
         IN  IF Len(more) >= limit
             THEN [neighbors |-> more, hit |-> TRUE]
             ELSE point_neighbor_list(results, i + 1, actual_identifier,
                                      limit, more)

NotLocated == [index |-> -1, identifier |-> 0]

\* _locate_row_by_identifier for an integer identifier column: the rows
\* whose value equals int(raw_identifier), else those whose str() equals
\* raw_identifier; the first of them
locate_row_by_identifier(raw_identifier) ==
    IF ~cfg.columns THEN NotLocated
    ELSE LET digits == Len(raw_identifier) > 0
                       /\ \A i \in 1..Len(raw_identifier) :
                             IsDigit(raw_identifier[i])
             byKey == IF digits
                      THEN {i \in 1..cfg.rows :
                               id_values[i] = ParseInt(raw_identifier)}
                      ELSE {}
             byText == {i \in 1..cfg.rows :
                           ToDigits(id_values[i]) = raw_identifier}
             rows == IF byKey # {} THEN byKey ELSE byText
         IN  IF rows = {} THEN NotLocated
             ELSE LET first == CHOOSE i \in rows : \A j \in rows : i <= j
                  IN  [index |-> first - 1, identifier |-> id_values[first]]

\* try: coords = upload_pipeline.project_vector(vector)
\* except Exception: coords = None
project(projected) == IF projected = "raise" THEN "none" ELSE projected

\* upload_neighbors' query_point: where the coordinates come from
upload_query_point(projected, transformed) ==
    IF project(projected) = "none" /\ cfg.model
    THEN IF transformed = "coords" THEN "model" ELSE "null"
    ELSE IF project(projected) = "coords" THEN "backend" ELSE "null"

\* text_neighbors' query_point
text_query_point(projected) ==
    IF project(projected) = "coords" THEN "backend" ELSE "null"

\* what find_nearest_neighbors may return: lists of (index, distance)
SeqsUpTo(S, n) == UNION {[1..m -> S] : m \in 0..n}

Distances == {1, 2}

BackendReturns ==
    SeqsUpTo([idx : -1..cfg.rows, dist : Distances], MaxReturned)

\* project_vector returns coordinates, a sequence shorter than 2, None, or
\* raises; the projection model's transform likewise
Projections == {"coords", "short", "none", "raise"}

Transforms == {"coords", "short", "raise"}

RequestedK == -1..(MaxLimit + 1)

Identifiers == {ToDigits(10 + i) : i \in 1..(MaxRows + 1)} \cup {<<"x">>}

VectorLoads == {"ok", "KeyError", "unconvertible", "empty"}

NoSearchRequest ==
    [endpoint |-> "none", k |-> 0, id |-> <<>>, projected |-> "none",
     transformed |-> "none"]

NoSearchResponse ==
    [status |-> 0, neighbors |-> <<>>, query |-> "null", hasMore |-> FALSE]

SearchRequest(endpoint, k, id) ==
    [endpoint |-> endpoint, k |-> k, id |-> id, projected |-> "none",
     transformed |-> "none"]

SearchError(status) ==
    [status |-> status, neighbors |-> <<>>, query |-> "null",
     hasMore |-> FALSE]

NeighborsIdle ==
    /\ nreq = NoSearchRequest
    /\ passed = <<>>
    /\ returned = <<>>
    /\ nout = NoSearchResponse

\* the endpoint returns before any find_nearest_neighbors call (with an
\* error, or text_neighbors with the empty answer to a blank query)
Refuse(request, status) ==
    /\ nreq' = request
    /\ passed' = <<>>
    /\ returned' = <<>>
    /\ nout' = SearchError(status)

\* find_nearest_neighbors(vector, k=limit) raises
SearchFails(request, limit) ==
    /\ nreq' = request
    /\ passed' = <<limit>>
    /\ returned' = <<>>
    /\ nout' = SearchError(500)

\* POST /data/upload-neighbors
upload_neighbors(Ks, Rs, Ps, Ts) ==
    /\ nout.status = 0
    /\ UNCHANGED cfg
    /\ \E k \in Ks :
        LET request == SearchRequest("upload_neighbors", k, <<>>) IN
        IF cfg.pipe = "none" THEN Refuse(request, 404)
        ELSE \E readOk \in BOOLEAN :
        IF ~readOk THEN Refuse(request, 400)
        ELSE \E embedOk \in BOOLEAN :
        IF ~embedOk THEN Refuse(request, 500)
        ELSE \E found \in BOOLEAN :
        IF ~found THEN SearchFails(request, search_limit(k))
        ELSE \E results \in Rs, projected \in Ps :
             \E transformed \in
                   IF project(projected) = "none" /\ cfg.model
                   THEN Ts ELSE {"none"} :
                /\ nreq' = [request EXCEPT !.projected = projected,
                                           !.transformed = transformed]
                /\ passed' = <<search_limit(k)>>
                /\ returned' = results
                /\ nout' = [status |-> 200,
                            neighbors |-> neighbor_list(results, 1),
                            query |-> upload_query_point(projected,
                                                         transformed),
                            hasMore |-> FALSE]

\* GET /data/text-neighbors; transformed is what the projection model would
\* give, which the endpoint does not ask for
text_neighbors(Ks, Rs, Ps, Ts) ==
    /\ nout.status = 0
    /\ UNCHANGED cfg
    /\ \E k \in Ks :
        LET request == SearchRequest("text_neighbors", k, <<"q">>) IN
        IF cfg.pipe = "none" THEN Refuse(request, 404)
        ELSE \E blank \in BOOLEAN :
        IF blank
        THEN \* JSONResponse({"neighbors": [], "query": None})
             Refuse(SearchRequest("text_neighbors", k, <<>>), 200)
        ELSE IF ~has_operation("encode_text") THEN Refuse(request, 500)
        ELSE \E encodeOk \in BOOLEAN :
        IF ~encodeOk THEN Refuse(request, 500)
        ELSE \E found \in BOOLEAN :
        IF ~found THEN SearchFails(request, search_limit(k))
        ELSE \E results \in Rs, projected \in Ps :
             \E transformed \in
                   IF project(projected) = "none" /\ cfg.model
                   THEN Ts ELSE {"none"} :
                /\ nreq' = [request EXCEPT !.projected = projected,
                                           !.transformed = transformed]
                /\ passed' = <<search_limit(k)>>
                /\ returned' = results
                /\ nout' = [status |-> 200,
                            neighbors |-> neighbor_list(results, 1),
                            query |-> text_query_point(projected),
                            hasMore |-> FALSE]

\* GET /data/point-neighbors
point_neighbors(Ks, Rs) ==
    /\ nout.status = 0
    /\ UNCHANGED cfg
    /\ \E k \in Ks, id \in Identifiers :
        LET request == SearchRequest("point_neighbors", k, id)
            limit == search_limit(k)
            located == locate_row_by_identifier(id)
            neighbors_k == min(min(limit + 1, cfg.maxResults + 1), cfg.rows)
        IN
        IF cfg.pipe = "none" \/ ~cfg.columns THEN Refuse(request, 404)
        ELSE IF located.index = -1 THEN Refuse(request, 404)
        ELSE \E load \in VectorLoads :
        IF load # "ok" THEN Refuse(request, 500)
        ELSE \E found \in BOOLEAN :
        IF ~found THEN SearchFails(request, neighbors_k)
        ELSE \E results \in Rs :
             LET out == point_neighbor_list(results, 1, located.identifier,
                                            limit, <<>>)
             IN /\ nreq' = request
                /\ passed' = <<neighbors_k>>
                /\ returned' = results
                /\ nout' = [status |-> 200,
                            neighbors |-> out.neighbors,
                            query |-> "null",
                            hasMore |-> out.hit /\ neighbors_k > limit]

\* the response has been sent
SearchDone ==
    /\ nout.status # 0
    /\ nreq' = NoSearchRequest
    /\ passed' = <<>>
    /\ returned' = <<>>
    /\ nout' = NoSearchResponse
    /\ UNCHANGED cfg

(***************************************************************************)
(* POST /data/upload-embeddings                                            *)
(***************************************************************************)
default_batch_limit == 64

novelty_k == 10

\* os.environ.get("ATLAS_UPLOAD_BATCH_LIMIT", "64"): unset, not a number,
\* or a number
BatchLimits ==
    {[set |-> FALSE, valid |-> TRUE, value |-> 0],
     [set |-> TRUE, valid |-> FALSE, value |-> 0]}
    \cup {[set |-> TRUE, valid |-> TRUE, value |-> v] : v \in 0..MaxBatch}

\* max(1, int(os.environ.get(...))), 64 on ValueError
max_items(env) ==
    IF ~env.set THEN max(1, default_batch_limit)
    ELSE IF ~env.valid THEN default_batch_limit
    ELSE max(1, env.value)

\* what happens to one uploaded file: whether file.read() and embed_bytes
\* return, what project_vector and the projection model give, whether the
\* coordinates are finite, whether find_nearest_neighbors returns
UploadedFiles ==
    {f \in [read : BOOLEAN, embed : BOOLEAN, projected : Projections,
            transformed : Transforms \cup {"none"}, finite : BOOLEAN,
            found : BOOLEAN] :
        LET fallback == f.read /\ f.embed /\ project(f.projected) = "none"
                        /\ cfg.model
            coords == /\ f.read /\ f.embed
                      /\ \/ f.projected = "coords"
                         \/ fallback /\ f.transformed = "coords"
        IN  /\ (~f.read => f.embed)
            /\ (~(f.read /\ f.embed) => f.projected = "coords")
            /\ (f.transformed # "none") = fallback
            /\ (~coords => f.finite)
            /\ (~(coords /\ f.finite) => f.found)}

\* list(files)[:max_items]
selected_files(files, limit) == SubSeq(files, 1, min(Len(files), limit))

BatchError(index, message) == [label |-> index, message |-> message]

\* a loop that stops at the first file that cannot be embedded
RECURSIVE process_files_abort(_, _, _)
process_files_abort(files, index, acc) ==
    IF index > Len(files) THEN acc
    ELSE IF ~files[index].read \/ ~files[index].embed
    THEN [acc EXCEPT !.errors = Append(@, BatchError(index, "Failed"))]
    ELSE process_files_abort(files, index + 1,
            [acc EXCEPT !.points = Append(@,
                [label |-> index, order |-> index - 1, avgDistance |-> "null"])])

\* for index, file in enumerate(selected_files): one entry of points or of
\* errors per file; acc is (points, errors, the k of each search)
RECURSIVE process_files(_, _, _)
process_files(files, index, acc) ==
    IF index > Len(files) THEN acc
    ELSE LET file == files[index]
             coords == IF project(file.projected) = "none" /\ cfg.model
                       THEN (IF file.transformed = "raise" THEN "none"
                             ELSE file.transformed)
                       ELSE project(file.projected)
             next(a) == process_files(files, index + 1, a)
             failed(message) ==
                 next([acc EXCEPT
                          !.errors = Append(@, BatchError(index, message))])
         IN  IF ~file.read THEN failed("Failed to read upload")
             ELSE IF ~file.embed THEN failed("Failed to embed")
             ELSE IF coords # "coords"
             THEN failed("Embedding did not produce coordinates.")
             ELSE IF ~file.finite
             THEN failed("Non-finite coordinates returned.")
             ELSE next([acc EXCEPT
                    !.passed = Append(@, min(novelty_k, cfg.rows)),
                    !.points = Append(@,
                        [label |-> index, order |-> index - 1,
                         avgDistance |-> IF file.found THEN "mean"
                                         ELSE "null"])])

upload_embeddings ==
    /\ nout.status = 0
    /\ UNCHANGED cfg
    /\ returned' = <<>>
    /\ \E files \in SeqsUpTo(UploadedFiles, MaxFiles), env \in BatchLimits :
        LET selected == selected_files(files, max_items(env))
            truncated == Len(files) > Len(selected)
            out == process_files(selected, 1,
                       [points |-> <<>>, errors |-> <<>>, passed |-> <<>>])
        IN  /\ nreq' = [endpoint |-> "upload_embeddings", files |-> files,
                        env |-> env]
            /\ IF cfg.pipe = "none"
               THEN /\ passed' = <<>>
                    /\ nout' = [status |-> 404, points |-> <<>>,
                                errors |-> <<>>, truncated |-> FALSE,
                                limit |-> 0]
               ELSE IF Len(files) = 0
               THEN /\ passed' = <<>>
                    /\ nout' = [status |-> 400, points |-> <<>>,
                                errors |-> <<>>, truncated |-> FALSE,
                                limit |-> 0]
               ELSE /\ passed' = out.passed
                    /\ nout' = [status |-> 200, points |-> out.points,
                                errors |-> out.errors,
                                truncated |-> truncated,
                                limit |-> IF truncated THEN Len(selected)
                                          ELSE 0]

(***************************************************************************)
(* Asset Store: the JSON cache (post_cache, get_cache over cache_set,      *)
(* cache_get).  Both endpoints are coroutines on the event loop.           *)
(***************************************************************************)
CacheNames == {"a", "b"}

\* JSON texts a client posts, and the Python values they stand for
JsonTexts == {"null", "false", "0", "{}", "[]", "1"}

PythonValues == {"None", "False", "int 0", "dict()", "list()", "int 1"}

\* json.load / request.json(): the value a JSON text parses to
json_load(text) ==
    CASE text = "null" -> "None"
      [] text = "false" -> "False"
      [] text = "0" -> "int 0"
      [] text = "{}" -> "dict()"
      [] text = "[]" -> "list()"
      [] text = "1" -> "int 1"

\* json.dump: the JSON text of a value
json_dump(value) ==
    CASE value = "None" -> "null"
      [] value = "False" -> "false"
      [] value = "int 0" -> "0"
      [] value = "dict()" -> "{}"
      [] value = "list()" -> "[]"
      [] value = "int 1" -> "1"

NoCacheRequest == [op |-> "none", name |-> "", body |-> ""]

NoCacheResponse == [status |-> 0, body |-> ""]

CacheIdle ==
    /\ cacheFiles = [n \in CacheNames |-> "absent"]
    /\ lastWrite = [n \in CacheNames |-> "never"]
    /\ creq = NoCacheRequest
    /\ cresp = NoCacheResponse

\* a cache_set that keeps what the file already holds
cache_set_keep_first(files, name, data) ==
    IF files[name] = "absent"
    THEN [files EXCEPT ![name] = json_dump(data)]
    ELSE files

\* DataSource.cache_set: open(path, "w"); json.dump(data, f)
cache_set(files, name, data) == [files EXCEPT ![name] = json_dump(data)]

\* DataSource.cache_get: the parsed content if the path exists, else None
cache_get(files, name) ==
    IF files[name] # "absent" THEN json_load(files[name]) ELSE "None"

\* POST /data/cache/{name}; text is the request body, or "malformed"
post_cache(name, text) ==
    /\ creq' = [op |-> "post", name |-> name, body |-> text]
    /\ IF text = "malformed"
       THEN \* request.json() raises out of the endpoint
            /\ cresp' = [status |-> 500, body |-> ""]
            /\ UNCHANGED <<cacheFiles, lastWrite>>
       ELSE /\ cacheFiles' = cache_set(cacheFiles, name, json_load(text))
            /\ lastWrite' = [lastWrite EXCEPT ![name] = text]
            /\ cresp' = [status |-> 200, body |-> "null"]

\* GET /data/cache/{name}
get_cache(name) ==
    LET obj == cache_get(cacheFiles, name) IN
    /\ creq' = [op |-> "get", name |-> name, body |-> ""]
    /\ cresp' = IF obj = "None" THEN [status |-> 404, body |-> ""]
                ELSE [status |-> 200, body |-> json_dump(obj)]
    /\ UNCHANGED <<cacheFiles, lastWrite>>

PostCache ==
    \E name \in CacheNames, text \in JsonTexts \cup {"malformed"} :
        post_cache(name, text)

GetCache == \E name \in CacheNames : get_cache(name)

(***************************************************************************)
(* Asset Store: DataSource.make_archive (GET /data/archive.zip)            *)
(***************************************************************************)
\* an ImageAsset holds its content, a path to a file that is there, a path
\* to a file that is not, a path to a file the process may not read, a path
\* to a directory, or neither content nor path
AssetKinds == {"content", "path", "gone", "denied", "directory", "nothing"}

\* ImageAsset.load: returns the bytes (keeping them in the asset) or raises
\* FileNotFoundError (no content and no path; read_bytes of a file that is
\* not there) or what else read_bytes raises
load(asset) ==
    IF asset \in {"content", "path"}
    THEN [raised |-> FALSE, error |-> "none", asset |-> "content"]
    ELSE [raised |-> TRUE,
          error |-> CASE asset = "denied" -> "PermissionError"
                      [] asset = "directory" -> "IsADirectoryError"
                      [] OTHER -> "FileNotFoundError",
          asset |-> asset]

\* a directory walk that raises when the directory is not there
os_walk_strict(present, files) ==
    [raised |-> ~present, files |-> IF present THEN files ELSE {}]

\* os.walk(top): the files under top; nothing (and no error) when top does
\* not exist
os_walk(present, files) ==
    [raised |-> FALSE, files |-> IF present THEN files ELSE {}]

CacheEntries == {<<"data/cache", n>> : n \in {m \in CacheNames :
                                                cacheFiles[m] # "absent"}}

FeedbackEntries ==
    IF journal > 0 THEN {<<"data/feedback", "clinical.jsonl">>} ELSE {}

\* the loop over the image assets: the entries written and the assets as
\* they are left, up to the first load() that raises
RECURSIVE write_assets(_, _, _)
write_assets(assets, i, acc) ==
    IF i > Len(assets) THEN acc
    ELSE LET loaded == load(assets[i]) IN
         IF loaded.raised THEN [acc EXCEPT !.raised = TRUE, !.at = i]
         ELSE write_assets(assets, i + 1,
                  [acc EXCEPT !.images = @ \cup {i},
                              !.assets[i] = loaded.asset])

\* the files under static_path
StaticEntries == {<<".", "index.html">>}

\* entries: the zip's paths outside data/images; images: the assets written
\* under data/images
NoArchive ==
    [result |-> "none", entries |-> {}, images |-> {}, isStatic |-> FALSE,
     database |-> "none", failedAsset |-> 0]

ArchiveIdle ==
    /\ dirs = [cache |-> TRUE, feedback |-> TRUE]
    /\ imageAssets = <<>>
    /\ archive = NoArchive

\* DataSource.make_archive; raising leaves the ZipFile and returns nothing
make_archive ==
    LET cache == os_walk(dirs.cache, CacheEntries)
        feedback == IF dirs.feedback
                    THEN os_walk(dirs.feedback, FeedbackEntries)
                    ELSE [raised |-> FALSE, files |-> {}]
        written == write_assets(imageAssets, 1,
                       [raised |-> FALSE, at |-> 0, images |-> {},
                        assets |-> imageAssets])
    IN
    /\ imageAssets' = IF cache.raised \/ feedback.raised THEN imageAssets
                      ELSE written.assets
    /\ archive' =
          IF cache.raised \/ feedback.raised
          THEN [NoArchive EXCEPT !.result = "raised"]
          ELSE IF written.raised
          THEN [NoArchive EXCEPT !.result = "raised",
                                 !.failedAsset = written.at]
          ELSE [result |-> "ok",
                entries |-> {<<"data", "metadata.json">>,
                             <<"data", "dataset.parquet">>}
                            \cup StaticEntries
                            \cup cache.files \cup feedback.files,
                images |-> written.images,
                isStatic |-> TRUE,
                database |-> "wasm",
                failedAsset |-> 0]
    /\ UNCHANGED dirs

(***************************************************************************)
(* The image endpoint, ImageAsset.load, the Image Codec, the feedback      *)
(* critical section and the event loop before any of them has run          *)
(***************************************************************************)
NoImageResponse == [status |-> 0, body |-> 0, escaped |-> FALSE]

ImageIdle == imgReq = 0 /\ imgResp = NoImageResponse

\* ImageAsset(): content None (<<>>), mime None (""), path None (FALSE)
NoAsset == [content |-> <<>>, mime |-> "", path |-> FALSE]

LoadIdle ==
    /\ imageAsset = NoAsset
    /\ diskFile = <<>>
    /\ lpc = [t \in Threads |-> "idle"]
    /\ ldata = [t \in Threads |-> <<>>]
    /\ lmime = [t \in Threads |-> ""]
    /\ lret = [t \in Threads |-> <<>>]
    /\ lreads = [t \in Threads |-> 0]
    /\ lmemo = [t \in Threads |-> FALSE]

CodecIdle ==
    /\ frame0 = <<>>
    /\ frame = <<>>
    /\ registry = <<>>
    /\ processedColumns = {}
    /\ extracted = FALSE

JournalIdle ==
    /\ jpc = [t \in Threads |-> "idle"]
    /\ feedbackLock = 0
    /\ jsonl = <<>>
    /\ fbDir = FALSE
    /\ persisted = {}

\* no handler is running on the event loop
NoTask == [endpoint |-> "none", blocking |-> FALSE]

LoopIdle ==
    /\ loopTask = NoTask
    /\ poolTasks = [w \in Threads |-> "idle"]
    /\ backlog = <<>>
    /\ served = 0

MediaIdle == ImageIdle /\ LoadIdle /\ CodecIdle /\ JournalIdle /\ LoopIdle

(***************************************************************************)
(* GET /data/images/{column}/{filename}                                    *)
(***************************************************************************)
\* the names a request can ask for: those of the assets and one more
ImageNames == 1..(MaxAssets + 1)

\* DataSource.get_image_asset: image_assets.get(column, {}).get(filename)
get_image_asset(name) ==
    IF name \in 1..Len(imageAssets) THEN imageAssets[name] ELSE "None"

\* Response(status_code=404)
NotFound == [status |-> 404, body |-> 0, escaped |-> FALSE]

\* an exception left get_image: the framework answers 500
ImageEscaped == [status |-> 500, body |-> 0, escaped |-> TRUE]

\* get_image; the body of a 200 is the bytes of the asset of that name
get_image ==
    /\ imgResp.status = 0
    /\ \E name \in ImageNames :
        LET asset == get_image_asset(name) IN
        /\ imgReq' = name
        /\ IF asset = "None"
           THEN imgResp' = NotFound /\ UNCHANGED imageAssets
           ELSE LET loaded == load(asset) IN
                IF loaded.raised
                THEN /\ imgResp' = IF loaded.error = "FileNotFoundError"
                                   THEN NotFound ELSE ImageEscaped
                     /\ UNCHANGED imageAssets
                ELSE /\ imgResp' = [status |-> 200, body |-> name,
                                    escaped |-> FALSE]
                     /\ imageAssets' =
                            [imageAssets EXCEPT ![name] = loaded.asset]

\* the response has been sent
ImageDone ==
    /\ imgResp.status # 0
    /\ imgReq' = 0
    /\ imgResp' = NoImageResponse
    /\ UNCHANGED imageAssets

(***************************************************************************)
(* image_assets.py: detect_image_type                                      *)
(***************************************************************************)
\* the magic numbers detect_image_type knows, as byte values
Magic ==
    [png |-> <<137, 80, 78, 71, 13, 10, 26, 10>>,
     jpeg |-> <<255, 216, 255>>,
     gif87a |-> <<71, 73, 70, 56, 55, 97>>,
     gif89a |-> <<71, 73, 70, 56, 57, 97>>,
     bmp |-> <<66, 77>>,
     tiff_le |-> <<73, 73, 42, 0>>,
     tiff_be |-> <<77, 77, 0, 42>>]

\* data.startswith(prefix)
startswith(data, prefix) ==
    /\ Len(data) >= Len(prefix)
    /\ SubSeq(data, 1, Len(prefix)) = prefix

detect_image_type(data) ==
    IF startswith(data, Magic.png) THEN "image/png"
    ELSE IF startswith(data, Magic.jpeg) THEN "image/jpeg"
    ELSE IF startswith(data, Magic.gif87a) \/ startswith(data, Magic.gif89a)
    THEN "image/gif"
    ELSE IF startswith(data, Magic.bmp) THEN "image/bmp"
    ELSE IF startswith(data, Magic.tiff_le) \/ startswith(data, Magic.tiff_be)
    THEN "image/tiff"
    ELSE "application/octet-stream"

\* byte strings of each known format, and byte strings of none: empty, a
\* text, a zip header, signatures cut short or off by one byte
ImageBytes == {Magic[f] \o <<0>> : f \in DOMAIN Magic}

OtherBytes ==
    {<<>>, <<104, 105>>, <<80, 75, 3, 4>>, <<137, 80, 78, 71>>, <<255, 216>>,
     <<71, 73, 70, 56, 56, 97>>, <<66>>, <<73, 73, 42>>, <<77, 77, 42, 0>>}

SampleBytes == ImageBytes \cup OtherBytes

(***************************************************************************)
(* ImageAsset.load, statement by statement, under concurrent callers       *)
(***************************************************************************)
\* the assets load() is called on: a path with no content yet, with the
\* mime given or not
PathAssets ==
    {[content |-> <<>>, mime |-> m, path |-> TRUE] :
        m \in {"", "image/png"}}

\* if self.content is not None: ... / if self.path is not None: ...
LoadCheck(t) ==
    /\ lpc[t] = "idle"
    /\ lmemo' = [lmemo EXCEPT ![t] = imageAsset.content # <<>>]
    /\ lpc' = [lpc EXCEPT ![t] =
                  IF imageAsset.content # <<>> THEN "memo"
                  ELSE IF imageAsset.path THEN "read" ELSE "raise"]
    /\ UNCHANGED <<imageAsset, diskFile, ldata, lmime, lret, lreads>>

\* a first branch that returns self.mime as it is
LoadMemoStoredMime(t) ==
    /\ lpc[t] = "memo"
    /\ lret' = [lret EXCEPT ![t] =
                   <<[content |-> imageAsset.content[1],
                      mime |-> imageAsset.mime]>>]
    /\ lpc' = [lpc EXCEPT ![t] = "done"]
    /\ UNCHANGED <<imageAsset, diskFile, ldata, lmime, lreads, lmemo>>

\* mime = self.mime or detect_image_type(self.content)
\* return self.content, mime
LoadMemo(t) ==
    /\ lpc[t] = "memo"
    /\ lret' = [lret EXCEPT ![t] =
                   <<[content |-> imageAsset.content[1],
                      mime |-> IF imageAsset.mime # "" THEN imageAsset.mime
                               ELSE detect_image_type(imageAsset.content[1])]>>]
    /\ lpc' = [lpc EXCEPT ![t] = "done"]
    /\ UNCHANGED <<imageAsset, diskFile, ldata, lmime, lreads, lmemo>>

\* data = self.path.read_bytes()
LoadRead(t) ==
    /\ lpc[t] = "read"
    /\ ldata' = [ldata EXCEPT ![t] = diskFile]
    /\ lreads' = [lreads EXCEPT ![t] = @ + 1]
    /\ lpc' = [lpc EXCEPT ![t] = "detect"]
    /\ UNCHANGED <<imageAsset, diskFile, lmime, lret, lmemo>>

\* mime = self.mime or detect_image_type(data)
LoadDetect(t) ==
    /\ lpc[t] = "detect"
    /\ lmime' = [lmime EXCEPT ![t] =
                    IF imageAsset.mime # "" THEN imageAsset.mime
                    ELSE detect_image_type(ldata[t])]
    /\ lpc' = [lpc EXCEPT ![t] = "set_content"]
    /\ UNCHANGED <<imageAsset, diskFile, ldata, lret, lreads, lmemo>>

\* object.__setattr__(self, "content", data)
LoadSetContent(t) ==
    /\ lpc[t] = "set_content"
    /\ imageAsset' = [imageAsset EXCEPT !.content = <<ldata[t]>>]
    /\ lpc' = [lpc EXCEPT ![t] = "set_mime"]
    /\ UNCHANGED <<diskFile, ldata, lmime, lret, lreads, lmemo>>

\* object.__setattr__(self, "mime", mime); return data, mime
LoadSetMime(t) ==
    /\ lpc[t] = "set_mime"
    /\ imageAsset' = [imageAsset EXCEPT !.mime = lmime[t]]
    /\ lret' = [lret EXCEPT ![t] =
                   <<[content |-> ldata[t], mime |-> lmime[t]]>>]
    /\ lpc' = [lpc EXCEPT ![t] = "done"]
    /\ UNCHANGED <<diskFile, ldata, lmime, lreads, lmemo>>

\* the caller has its result and may call load() again
LoadReturn(t) ==
    /\ lpc[t] = "done"
    /\ lpc' = [lpc EXCEPT ![t] = "idle"]
    /\ ldata' = [ldata EXCEPT ![t] = <<>>]
    /\ lmime' = [lmime EXCEPT ![t] = ""]
    /\ lret' = [lret EXCEPT ![t] = <<>>]
    /\ lreads' = [lreads EXCEPT ![t] = 0]
    /\ lmemo' = [lmemo EXCEPT ![t] = FALSE]
    /\ UNCHANGED <<imageAsset, diskFile>>

(***************************************************************************)
(* Image Codec: normalize_image_bytes, extract_image_assets                *)
(* A cell is None, bytes, a data URL, a base64 text, the text of a path    *)
(* that resolves to a file, another text, or (afterwards) a token.  data   *)
(* is the bytes the cell holds or encodes, or the bytes of the file;       *)
(* picture is how Pillow decodes them.                                     *)
(***************************************************************************)
IMAGE_TOKEN_PREFIX ==
    <<"e", "a", ":", "/", "/", "i", "m", "a", "g", "e", "/">>

Cell(type, data, picture, suffix) ==
    [type |-> type, data |-> data, picture |-> picture, suffix |-> suffix,
     text |-> <<>>]

\* f"{IMAGE_TOKEN_PREFIX}{column}/{filename}" as a cell
TokenCell(column, filename) ==
    [type |-> "token", data |-> <<>>, picture |-> "none", suffix |-> <<>>,
     text |-> IMAGE_TOKEN_PREFIX \o column \o <<"/">> \o filename]

Nothing == [bytes |-> <<>>, path |-> <<>>]

\* _decode_data_url: base64.b64decode of what follows the comma
decode_data_url(value) == <<value.data>>

\* _decode_base64: the decoded bytes unless they sniff as octet-stream
decode_base64(value) ==
    IF value.type # "base64" THEN <<>>
    ELSE IF detect_image_type(value.data) = "application/octet-stream"
    THEN <<>>
    ELSE <<value.data>>

\* _resolve_path: the path when it resolves to something that exists
resolve_path(value) ==
    IF value.type = "path"
    THEN <<[suffix |-> value.suffix, file |-> value.data]>>
    ELSE <<>>

\* normalize_image_bytes: (bytes or None, path or None)
normalize_image_bytes(value) ==
    IF value.type = "none" THEN Nothing
    ELSE IF value.type = "bytes" THEN [bytes |-> <<value.data>>, path |-> <<>>]
    ELSE IF value.type = "dataurl"
    THEN [bytes |-> decode_data_url(value), path |-> <<>>]
    ELSE IF decode_base64(value) # <<>>
    THEN [bytes |-> decode_base64(value), path |-> <<>>]
    ELSE IF resolve_path(value) # <<>>
    THEN [bytes |-> <<>>, path |-> resolve_path(value)]
    ELSE Nothing

\* _encode_thumbnail: the bytes as they are without Pillow; with it, a JPEG
\* for an RGB picture, a PNG otherwise, or the exception Image.open raises
encode_thumbnail(data, mime, picture, pil) ==
    IF ~pil THEN [raised |-> FALSE, bytes |-> data, mime |-> mime]
    ELSE IF picture = "rgb"
    THEN [raised |-> FALSE, bytes |-> Magic.jpeg \o <<224>>,
          mime |-> "image/jpeg"]
    ELSE IF picture = "rgba"
    THEN [raised |-> FALSE, bytes |-> Magic.png \o <<0>>,
          mime |-> "image/png"]
    ELSE [raised |-> TRUE, bytes |-> <<>>, mime |-> ""]

extension_for_mime(mime) ==
    CASE mime = "image/png" -> <<".", "p", "n", "g">>
      [] mime = "image/jpeg" -> <<".", "j", "p", "g">>
      [] mime = "image/gif" -> <<".", "g", "i", "f">>
      [] mime = "image/bmp" -> <<".", "b", "m", "p">>
      [] mime = "image/tiff" -> <<".", "t", "i", "f", "f">>
      [] OTHER -> <<".", "b", "i", "n">>

\* ImageAsset(path=path_value) / ImageAsset(content=..., mime=...)
PathAsset(path) == [content |-> <<>>, mime |-> "", path |-> <<path>>]

ContentAsset(bytes, mime) ==
    [content |-> <<bytes>>, mime |-> mime, path |-> <<>>]

\* the candidate columns, in the dataframe's order
ColumnOrder == <<<<"a">>, <<"b">>>>

\* a registration that is lost
register_nothing(assets, column, filename, asset) == assets

\* assets[column][filename] = asset
register(assets, column, filename, asset) ==
    (<<column, filename>> :> asset) @@ assets

\* the body of the loop over series.items() for one cell
extract_cell(acc, column, r, pil) ==
    LET value == acc.frame[r].cells[column]
        found == normalize_image_bytes(value)
        row_identifier == acc.frame[r].id
    IN  IF found.bytes = <<>> /\ found.path = <<>> THEN acc
        ELSE IF found.path # <<>>
        THEN LET extension == IF found.path[1].suffix # <<>>
                              THEN found.path[1].suffix
                              ELSE <<".", "b", "i", "n">>
                 filename == ToDigits(row_identifier) \o extension
             IN  [acc EXCEPT !.frame[r].cells[column] =
                                 TokenCell(column, filename),
                             !.assets = register(@, column, filename,
                                                 PathAsset(found.path[1])),
                             !.updated = TRUE]
        ELSE LET mime == detect_image_type(found.bytes[1]) IN
             IF mime = "application/octet-stream" THEN acc
             ELSE LET thumb == encode_thumbnail(found.bytes[1], mime,
                                                value.picture, pil)
                  IN  IF thumb.raised THEN acc
                      ELSE LET filename == ToDigits(row_identifier)
                                      \o extension_for_mime(thumb.mime)
                           IN [acc EXCEPT
                                 !.frame[r].cells[column] =
                                     TokenCell(column, filename),
                                 !.assets =
                                     register(@, column, filename,
                                         ContentAsset(thumb.bytes,
                                                      thumb.mime)),
                                 !.updated = TRUE]

\* for index, value in series.items(): ...
RECURSIVE extract_rows(_, _, _, _)
extract_rows(acc, column, r, pil) ==
    IF r > Len(acc.frame) THEN acc
    ELSE extract_rows(extract_cell(acc, column, r, pil), column, r + 1, pil)

\* for column in _candidate_columns(df): ...
RECURSIVE extract_columns(_, _, _)
extract_columns(acc, c, pil) ==
    IF c > Len(ColumnOrder) THEN acc
    ELSE LET done == extract_rows([acc EXCEPT !.updated = FALSE],
                                  ColumnOrder[c], 1, pil)
         IN  extract_columns(
                 [done EXCEPT !.processed =
                     IF done.updated THEN @ \cup {ColumnOrder[c]} ELSE @],
                 c + 1, pil)

\* extract_image_assets(df, id_column); pil is whether Pillow is installed
extract_image_assets ==
    /\ ~extracted
    /\ \E pil \in BOOLEAN :
        LET out == extract_columns([frame |-> frame0, assets |-> <<>>,
                                    updated |-> FALSE, processed |-> {}],
                                   1, pil)
        IN /\ frame' = out.frame
           /\ registry' = out.assets
           /\ processedColumns' = out.processed
    /\ extracted' = TRUE
    /\ UNCHANGED frame0

\* the cells of the dataframes handed to it
Pictures == {"rgb", "rgba", "broken"}

FirstCells ==
    {Cell("none", <<>>, "none", <<>>),
     Cell("text", <<>>, "none", <<>>),
     Cell("bytes", Magic.png \o <<0>>, "rgba", <<>>),
     Cell("bytes", Magic.jpeg \o <<0>>, "rgb", <<>>),
     Cell("bytes", Magic.gif89a \o <<0>>, "broken", <<>>),
     Cell("bytes", <<104, 105>>, "broken", <<>>),
     Cell("dataurl", Magic.gif87a \o <<0>>, "rgba", <<>>),
     Cell("dataurl", <<137, 80, 78, 71>>, "broken", <<>>),
     Cell("base64", Magic.bmp \o <<0>>, "rgb", <<>>),
     Cell("base64", <<104, 105>>, "broken", <<>>),
     Cell("path", Magic.png \o <<0>>, "rgba", <<".", "p", "n", "g">>),
     Cell("path", Magic.tiff_le \o <<0>>, "rgb", <<>>),
     Cell("path", <<104, 105>>, "broken", <<".", "t", "x", "t">>)}

SecondCells ==
    {Cell("none", <<>>, "none", <<>>),
     Cell("text", <<>>, "none", <<>>),
     Cell("bytes", Magic.tiff_be \o <<0>>, "rgb", <<>>),
     Cell("path", <<80, 75, 3, 4>>, "broken", <<".", "p", "n", "g">>)}

\* the id column: two rows with different identifiers, two with the same
\* one, one row
RowIds == {<<1, 2>>, <<7, 7>>, <<12>>}

CellRows ==
    {(<<"a">> :> x) @@ (<<"b">> :> y) : x \in FirstCells, y \in SecondCells}

Frames ==
    UNION {{[j \in 1..Len(ids) |-> [id |-> ids[j], cells |-> cs[j]]] :
               cs \in [1..Len(ids) -> CellRows]} : ids \in RowIds}

(***************************************************************************)
(* post_clinical_feedback, statement by statement, under concurrent        *)
(* callers: the section under feedback_lock and DataSource.append_feedback *)
(***************************************************************************)
\* the handler reaches `with feedback_lock:`
FbEnter(t) ==
    /\ jpc[t] = "idle"
    /\ Len(jsonl) < 2 * MaxFeedback
    /\ jpc' = [jpc EXCEPT ![t] = "lock"]
    /\ UNCHANGED <<feedbackLock, jsonl, fbDir, persisted>>

\* a lock that is taken whether it is free or not
FbAcquireNoWait(t) ==
    /\ jpc[t] = "lock"
    /\ feedbackLock' = t
    /\ jpc' = [jpc EXCEPT ![t] = "persist"]
    /\ UNCHANGED <<jsonl, fbDir, persisted>>

\* feedback_lock.__enter__
FbAcquire(t) ==
    /\ jpc[t] = "lock"
    /\ feedbackLock = 0
    /\ feedbackLock' = t
    /\ jpc' = [jpc EXCEPT ![t] = "persist"]
    /\ UNCHANGED <<jsonl, fbDir, persisted>>

\* _persist_query_images when there is a query row with an image:
\* base_dir.mkdir(parents=True, exist_ok=True) and the image files
FbPersist(t, hasQueryRow) ==
    /\ jpc[t] = "persist"
    /\ persisted' = IF hasQueryRow THEN persisted \cup {t} ELSE persisted
    /\ fbDir' = (fbDir \/ hasQueryRow)
    /\ jpc' = [jpc EXCEPT ![t] = "mkdir"]
    /\ UNCHANGED <<feedbackLock, jsonl>>

\* append_feedback: self.feedback_path.mkdir(parents=True, exist_ok=True)
FbMkdir(t) ==
    /\ jpc[t] = "mkdir"
    /\ fbDir' = TRUE
    /\ jpc' = [jpc EXCEPT ![t] = "record"]
    /\ UNCHANGED <<feedbackLock, jsonl, persisted>>

\* append_feedback: open(path, "a") and json.dump(data, f); when it raises
\* the with statement releases the lock and the handler answers 500
FbWriteRecord(t, ok) ==
    /\ jpc[t] = "record"
    /\ IF ok /\ fbDir
       THEN /\ jsonl' = Append(jsonl, <<t, "record">>)
            /\ jpc' = [jpc EXCEPT ![t] = "newline"]
            /\ UNCHANGED feedbackLock
       ELSE /\ feedbackLock' = 0
            /\ jpc' = [jpc EXCEPT ![t] = "done"]
            /\ UNCHANGED jsonl
    /\ UNCHANGED <<fbDir, persisted>>

\* append_feedback: f.write("\n")
FbWriteNewline(t) ==
    /\ jpc[t] = "newline"
    /\ jsonl' = Append(jsonl, <<t, "newline">>)
    /\ jpc' = [jpc EXCEPT ![t] = "csv"]
    /\ UNCHANGED <<feedbackLock, fbDir, persisted>>

\* data_source.append_feedback_csv(...), feedback_lock.__exit__ and the
\* response
FbSummary(t) ==
    /\ jpc[t] = "csv"
    /\ feedbackLock' = 0
    /\ jpc' = [jpc EXCEPT ![t] = "done"]
    /\ UNCHANGED <<jsonl, fbDir, persisted>>

\* the response has been sent
FbDone(t) ==
    /\ jpc[t] = "done"
    /\ jpc' = [jpc EXCEPT ![t] = "idle"]
    /\ UNCHANGED <<feedbackLock, jsonl, fbDir, persisted>>

(***************************************************************************)
(* The event loop and the executor.  Every endpoint is an `async def`: its *)
(* handler runs on the event loop, which accepts no other request until    *)
(* the handler awaits or returns.                                          *)
(***************************************************************************)
\* the endpoints that do blocking work: query execution, archive building,
\* image resolution, embedding inference and neighbor search
BlockingEndpoints ==
    {"get_query", "post_query", "post_selection", "make_archive",
     "get_image", "upload_neighbors", "text_neighbors", "upload_embeddings",
     "point_neighbors"}

\* the handlers that pass their work to run_in_executor(executor, ...)
Dispatching == {"get_query", "post_query", "post_selection"}

\* the event loop starts the handler of the next request
LoopAccept(e) ==
    /\ loopTask = NoTask
    /\ served < MaxRequests
    /\ loopTask' = [endpoint |-> e, blocking |-> FALSE]
    /\ served' = served + 1
    /\ UNCHANGED <<poolTasks, backlog>>

\* await loop.run_in_executor(executor, handle_query / handle_selection, ...):
\* the job is queued for a worker and the loop is free again
LoopDispatch ==
    /\ loopTask.endpoint \in Dispatching
    /\ backlog' = Append(backlog, loopTask.endpoint)
    /\ loopTask' = NoTask
    /\ UNCHANGED <<poolTasks, served>>

\* the handler itself calls data_source.make_archive(), asset.load(),
\* upload_pipeline.embed_bytes / encode_text / find_nearest_neighbors
LoopBlock ==
    /\ loopTask.endpoint \in BlockingEndpoints \ Dispatching
    /\ ~loopTask.blocking
    /\ loopTask' = [loopTask EXCEPT !.blocking = TRUE]
    /\ UNCHANGED <<poolTasks, backlog, served>>

\* the call returns and the handler answers
LoopReturn ==
    /\ loopTask.blocking
    /\ loopTask' = NoTask
    /\ UNCHANGED <<poolTasks, backlog, served>>

\* a worker of the ThreadPoolExecutor takes the next job
PoolStart(w) ==
    /\ poolTasks[w] = "idle"
    /\ backlog # <<>>
    /\ poolTasks' = [poolTasks EXCEPT ![w] = backlog[1]]
    /\ backlog' = Tail(backlog)
    /\ UNCHANGED <<loopTask, served>>

\* the job returns its response
PoolFinish(w) ==
    /\ poolTasks[w] # "idle"
    /\ poolTasks' = [poolTasks EXCEPT ![w] = "idle"]
    /\ UNCHANGED <<loopTask, backlog, served>>

(***************************************************************************)
(* Specifications                                                          *)
(***************************************************************************)
InitRange ==
    /\ content \in Blobs
    /\ cached = <<>>
    /\ makeCalls = 0
    /\ rreq = NoHeader
    /\ rresp = NoResponse
    /\ QueryIdle /\ FeedbackIdle
    /\ wrapper = TRUE /\ PipelineIdle
    /\ cfg = DefaultConfig /\ NeighborsIdle /\ CacheIdle /\ ArchiveIdle
    /\ MediaIdle

RangeIdle ==
    /\ content = <<>>
    /\ cached = <<>>
    /\ makeCalls = 0
    /\ rreq = NoHeader
    /\ rresp = NoResponse

NextRange ==
    /\ HeadRequest \/ GetRequest
    /\ UNCHANGED <<queryVars, feedbackVars, pipelineVars, storeVars>>

SearchIdle == wrapper = TRUE /\ PipelineIdle

StoreIdle ==
    /\ cfg = DefaultConfig /\ NeighborsIdle /\ CacheIdle /\ ArchiveIdle
    /\ MediaIdle

Init == RangeIdle /\ QueryIdle /\ FeedbackIdle /\ SearchIdle /\ StoreIdle

SpecRange == InitRange /\ [][NextRange]_vars

\* the Query Proxy under concurrent requests
NextQuery ==
    /\ UNCHANGED <<rangeVars, feedbackVars, pipelineVars, storeVars>>
    /\ \E t \in Threads :
          \/ AcceptConcurrent(t)
          \/ QueryStart(t)
          \/ SelectionStart(t)
          \/ ConnCheck(t)
          \/ ConnLock(t)
          \/ Connect(t)
          \/ ExecuteQuery(t)
          \/ CopySelection(t)
          \/ ReadSelection(t)
          \/ Unlink(t)
          \/ Finish(t)

SpecQuery == Init /\ [][NextQuery]_vars

\* export_selection on one worker thread, over the predicate texts
NextFilter ==
    /\ UNCHANGED <<rangeVars, feedbackVars, pipelineVars, storeVars>>
    /\ \/ AcceptFiltered(1)
       \/ SelectionStart(1)
       \/ ConnCheck(1)
       \/ ConnLock(1)
       \/ Connect(1)
       \/ CopySelection(1)
       \/ ReadSelection(1)
       \/ Unlink(1)
       \/ Finish(1)

SpecFilter == Init /\ [][NextFilter]_vars

\* every endpoint that takes a request body, one request at a time
NextInputs ==
    /\ UNCHANGED <<rangeVars, pipelineVars, storeVars>>
    /\ \/ PostClinicalFeedback /\ UNCHANGED queryVars
       \/ /\ UNCHANGED feedbackVars
          /\ \/ AcceptInput(1)
             \/ QueryStart(1)
             \/ SelectionStart(1)
             \/ ConnCheck(1)
             \/ ConnLock(1)
             \/ Connect(1)
             \/ ExecuteQuery(1)
             \/ CopySelection(1)
             \/ ReadSelection(1)
             \/ Unlink(1)
             \/ Finish(1)

SpecInputs == Init /\ [][NextInputs]_vars

\* the search backend wrapper under concurrent callers
InitPipeline ==
    /\ RangeIdle /\ QueryIdle /\ FeedbackIdle /\ StoreIdle
    /\ wrapper \in BOOLEAN /\ PipelineIdle

NextPipeline ==
    /\ UNCHANGED <<rangeVars, queryVars, feedbackVars, storeVars>>
    /\ \E c \in Threads :
          \/ DirectCall(c)
          \/ UploadNeighbors(c)
          \/ TextNeighbors(c)
          \/ EnsureCheck(c)
          \/ EnsureLock(c)
          \/ Construct(c)
          \/ InvokeBackend(c)
          \/ Continue(c)
          \/ FinishCall(c)

SpecPipeline == InitPipeline /\ [][NextPipeline]_vars

\* the search endpoints of the server, whose requests the event loop runs
\* one at a time
NextSearch ==
    /\ UNCHANGED <<rangeVars, queryVars, feedbackVars, storeVars>>
    /\ \E c \in Threads :
          \/ UploadNeighbors(c)
          \/ TextNeighbors(c)
          \/ EnsureCheck(c)
          \/ EnsureLock(c)
          \/ Construct(c)
          \/ InvokeBackend(c)
          \/ Continue(c)
          \/ FinishCall(c)

SpecSearch == InitPipeline /\ [][NextSearch]_vars

\* the neighbor endpoints over every requested k and every backend answer
UploadNeighborsRequest ==
    upload_neighbors(RequestedK, BackendReturns, {"coords"}, {"coords"})

TextNeighborsRequest ==
    text_neighbors(RequestedK, BackendReturns, {"coords"}, {"coords"})

PointNeighborsRequest == point_neighbors(RequestedK, BackendReturns)

InitNeighbors ==
    /\ RangeIdle /\ QueryIdle /\ FeedbackIdle /\ SearchIdle
    /\ cfg \in Configs
    /\ NeighborsIdle /\ CacheIdle /\ ArchiveIdle
    /\ MediaIdle

NextNeighbors ==
    /\ UNCHANGED <<rangeVars, queryVars, feedbackVars, pipelineVars,
                   cacheVars, archiveVars, mediaVars>>
    /\ \/ UploadNeighborsRequest
       \/ TextNeighborsRequest
       \/ PointNeighborsRequest
       \/ SearchDone

SpecNeighbors == InitNeighbors /\ [][NextNeighbors]_vars

\* the query coordinate of the two endpoints over every outcome of the
\* projections
FewReturns == {<<>>, <<[idx |-> 0, dist |-> 1]>>}

UploadProjection == upload_neighbors({1}, FewReturns, Projections, Transforms)

TextProjection == text_neighbors({1}, FewReturns, Projections, Transforms)

NextProjection ==
    /\ UNCHANGED <<rangeVars, queryVars, feedbackVars, pipelineVars,
                   cacheVars, archiveVars, mediaVars>>
    /\ \/ UploadProjection
       \/ TextProjection
       \/ SearchDone

SpecProjection == InitNeighbors /\ [][NextProjection]_vars

\* upload-embeddings; it reads neither max_neighbor_results nor the columns
BatchConfigs ==
    {c \in Configs : c.maxResults = 1 /\ c.columns}

InitBatch ==
    /\ RangeIdle /\ QueryIdle /\ FeedbackIdle /\ SearchIdle
    /\ cfg \in BatchConfigs
    /\ NeighborsIdle /\ CacheIdle /\ ArchiveIdle
    /\ MediaIdle

NextBatch ==
    /\ UNCHANGED <<rangeVars, queryVars, feedbackVars, pipelineVars,
                   cacheVars, archiveVars, mediaVars>>
    /\ \/ upload_embeddings
       \/ SearchDone

SpecBatch == InitBatch /\ [][NextBatch]_vars

\* the cache endpoints
NextCache ==
    /\ UNCHANGED <<rangeVars, queryVars, feedbackVars, pipelineVars,
                   neighborVars, archiveVars, mediaVars>>
    /\ \/ PostCache
       \/ GetCache

SpecCache == Init /\ [][NextCache]_vars

\* archive export over the directories, the stored files and the image
\* assets a data source can have
InitArchive ==
    /\ RangeIdle /\ QueryIdle /\ SearchIdle
    /\ cfg = DefaultConfig /\ NeighborsIdle
    /\ dirs \in [cache : BOOLEAN, feedback : BOOLEAN]
    /\ cacheFiles \in [CacheNames -> {"absent", "1"}]
    /\ (~dirs.cache => cacheFiles = [n \in CacheNames |-> "absent"])
    /\ lastWrite = [n \in CacheNames |->
                       IF cacheFiles[n] = "absent" THEN "never" ELSE "1"]
    /\ creq = NoCacheRequest
    /\ cresp = NoCacheResponse
    /\ fbCount = 0
    /\ fbReq = NoFeedbackRequest
    /\ fbResp = NoReply
    /\ journal \in {0, 1}
    /\ (~dirs.feedback => journal = 0)
    /\ csvRows = 0
    /\ queryImages = 0
    /\ imageAssets \in SeqsUpTo(AssetKinds, MaxAssets)
    /\ archive = NoArchive
    /\ MediaIdle

NextArchive ==
    /\ UNCHANGED <<rangeVars, queryVars, feedbackVars, pipelineVars,
                   neighborVars, cacheVars, mediaVars>>
    /\ make_archive

SpecArchive == InitArchive /\ [][NextArchive]_vars

\* the image endpoint over the assets a data source can hold
InitImages ==
    /\ RangeIdle /\ QueryIdle /\ FeedbackIdle
    /\ wrapper = TRUE /\ PipelineIdle
    /\ cfg = DefaultConfig /\ NeighborsIdle /\ CacheIdle
    /\ dirs = [cache |-> TRUE, feedback |-> TRUE]
    /\ imageAssets \in SeqsUpTo(AssetKinds, MaxAssets)
    /\ archive = NoArchive
    /\ MediaIdle

NextImages ==
    /\ UNCHANGED <<rangeVars, queryVars, feedbackVars, pipelineVars,
                   neighborVars, cacheVars, dirs, archive, loadVars,
                   codecVars, journalVars, loopVars>>
    /\ \/ get_image
       \/ ImageDone

SpecImages == InitImages /\ [][NextImages]_vars

\* concurrent load() calls on one path asset whose file does not change
InitLoad ==
    /\ RangeIdle /\ QueryIdle /\ FeedbackIdle /\ SearchIdle
    /\ cfg = DefaultConfig /\ NeighborsIdle /\ CacheIdle /\ ArchiveIdle
    /\ ImageIdle /\ CodecIdle /\ JournalIdle /\ LoopIdle
    /\ imageAsset \in PathAssets
    /\ diskFile \in SampleBytes
    /\ lpc = [t \in Threads |-> "idle"]
    /\ ldata = [t \in Threads |-> <<>>]
    /\ lmime = [t \in Threads |-> ""]
    /\ lret = [t \in Threads |-> <<>>]
    /\ lreads = [t \in Threads |-> 0]
    /\ lmemo = [t \in Threads |-> FALSE]

NextLoad ==
    /\ UNCHANGED <<rangeVars, queryVars, feedbackVars, pipelineVars,
                   neighborVars, cacheVars, archiveVars, imageVars,
                   codecVars, journalVars, loopVars>>
    /\ \E t \in Threads :
          \/ LoadCheck(t)
          \/ LoadMemo(t)
          \/ LoadRead(t)
          \/ LoadDetect(t)
          \/ LoadSetContent(t)
          \/ LoadSetMime(t)
          \/ LoadReturn(t)

SpecLoad == InitLoad /\ [][NextLoad]_vars

\* extract_image_assets over the dataframes of the model
InitCodec ==
    /\ RangeIdle /\ QueryIdle /\ FeedbackIdle /\ SearchIdle
    /\ cfg = DefaultConfig /\ NeighborsIdle /\ CacheIdle /\ ArchiveIdle
    /\ ImageIdle /\ LoadIdle /\ JournalIdle /\ LoopIdle
    /\ frame0 \in Frames
    /\ frame = <<>>
    /\ registry = <<>>
    /\ processedColumns = {}
    /\ extracted = FALSE

NextCodec ==
    /\ UNCHANGED <<rangeVars, queryVars, feedbackVars, pipelineVars,
                   neighborVars, cacheVars, archiveVars, imageVars,
                   loadVars, journalVars, loopVars>>
    /\ extract_image_assets

SpecCodec == InitCodec /\ [][NextCodec]_vars

\* concurrent clinical-feedback requests, the feedback directory there or not
InitJournal ==
    /\ RangeIdle /\ QueryIdle /\ FeedbackIdle /\ SearchIdle
    /\ cfg = DefaultConfig /\ NeighborsIdle /\ CacheIdle /\ ArchiveIdle
    /\ ImageIdle /\ LoadIdle /\ CodecIdle /\ LoopIdle
    /\ jpc = [t \in Threads |-> "idle"]
    /\ feedbackLock = 0
    /\ jsonl = <<>>
    /\ fbDir \in BOOLEAN
    /\ persisted = {}

NextJournal ==
    /\ UNCHANGED <<rangeVars, queryVars, feedbackVars, pipelineVars,
                   neighborVars, cacheVars, archiveVars, imageVars,
                   loadVars, codecVars, loopVars>>
    /\ \E t \in Threads :
          \/ FbEnter(t)
          \/ FbAcquire(t)
          \/ \E hasQueryRow \in BOOLEAN : FbPersist(t, hasQueryRow)
          \/ FbMkdir(t)
          \/ \E ok \in BOOLEAN : FbWriteRecord(t, ok)
          \/ FbWriteNewline(t)
          \/ FbSummary(t)
          \/ FbDone(t)

SpecJournal == InitJournal /\ [][NextJournal]_vars

\* requests to the blocking endpoints, the executor with NThreads workers
NextLoop ==
    /\ UNCHANGED <<rangeVars, queryVars, feedbackVars, pipelineVars,
                   neighborVars, cacheVars, archiveVars, imageVars,
                   loadVars, codecVars, journalVars>>
    /\ \/ \E e \in BlockingEndpoints : LoopAccept(e)
       \/ LoopDispatch
       \/ LoopBlock
       \/ LoopReturn
       \/ \E w \in Threads : PoolStart(w) \/ PoolFinish(w)

SpecLoop == Init /\ [][NextLoop]_vars

(***************************************************************************)
(* Range Server: claims                                                    *)
(***************************************************************************)
RangeRequested == rresp.method = "GET" /\ rreq.hasRange /\ rreq.wf

FullBlobResponse ==
    /\ rresp.status = 200
    /\ rresp.body = content
    /\ rresp.contentLength = Len(content)
    /\ ~rresp.hasContentRange

\* C1 (as stated): a GET with Range: bytes=s-e is served as a range iff the
\* header is well-formed, s < e strictly and e is below the content length;
\* every other GET returns the full blob with status 200 and no Content-Range.
C1_RangeServedIffStrictlyOrdered ==
    rresp.method = "GET" =>
        IF rreq.hasRange /\ rreq.wf /\ rreq.s < rreq.e /\ rreq.e < Len(content)
        THEN rresp.status = 206
        ELSE FullBlobResponse

\* C1 (amended): a GET with Range: bytes=s-e is served as a range iff the
\* header is well-formed, s <= e (a one-byte range s = e is served) and e is
\* below the content length; every other GET returns the full blob with
\* status 200 and no Content-Range.
C1_RangeServedIffOrdered ==
    rresp.method = "GET" =>
        IF rreq.hasRange /\ rreq.wf /\ rreq.s <= rreq.e /\ rreq.e < Len(content)
        THEN rresp.status = 206
        ELSE FullBlobResponse

\* a one-byte range was served, and an out-of-bounds one was not
C1_Witness ==
    /\ RangeRequested
    /\ rreq.s = rreq.e
    /\ rresp.status = 206
    /\ Len(rresp.body) = 1

\* C2: whenever a GET range bytes=s-e on a blob of length L is honoured, the
\* status is 206, the body is exactly the bytes at offsets s..e inclusive,
\* Content-Length is e-s+1 (the body's length) and Content-Range is
\* "bytes s-e/L".
C2_HonouredRangeResponse ==
    (rresp.method = "GET" /\ rreq.hasRange /\ rresp.status # 200) =>
        /\ rresp.status = 206
        /\ rreq.s <= rreq.e
        /\ rreq.e < Len(content)
        /\ rresp.body = [i \in 1..(rreq.e - rreq.s + 1) |-> content[rreq.s + i]]
        /\ rresp.contentLength = rreq.e - rreq.s + 1
        /\ rresp.contentLength = Len(rresp.body)
        /\ rresp.hasContentRange
        /\ rresp.contentRange =
              <<"b", "y", "t", "e", "s", " ">> \o ToDigits(rreq.s) \o <<"-">>
                 \o ToDigits(rreq.e) \o <<"/">> \o ToDigits(Len(content))

\* a range of several bytes, written with leading zeros, was honoured
C2_Witness ==
    /\ rresp.method = "GET"
    /\ rresp.status = 206
    /\ rreq.s < rreq.e
    /\ rreq.s > 0
    /\ Len(rreq.value) > 9

(***************************************************************************)
(* Query Proxy: claims                                                     *)
(***************************************************************************)
WordChars == {"a", "c", "e", "g", "h", "o", "p", "t", "y", "3",
              "A", "C", "H", "O", "P", "T", "Y"}

\* the keyword kw (lower case) occurs in p in any letter case as a word of
\* its own, followed by some character
HasKeyword(p, kw) ==
    \E i \in 1..(Len(p) - Len(kw)) :
        /\ HasPrefixAt(lower(p), i, kw)
        /\ p[i + Len(kw)] \notin WordChars
        /\ (i > 1 => p[i - 1] \notin WordChars)

\* what the safety filter is to reject: a statement separator, a comment
\* sequence, or the keyword ATTACH or COPY
NamedUnsafe(p) ==
    \/ Contains(p, <<";">>)
    \/ Contains(p, <<"-", "-">>)
    \/ Contains(p, <<"/", "*">>)
    \/ Contains(p, <<"*", "/">>)
    \/ HasKeyword(p, <<"a", "t", "t", "a", "c", "h">>)
    \/ HasKeyword(p, <<"c", "o", "p", "y">>)

\* C3: every export_selection predicate that contains `;`, `--`, `/*`, `*/`
\* or the keyword ATTACH or COPY (any letter case, whatever character
\* follows it) is answered with 400 and is never passed to the engine: no
\* engine call and no temporary file for that request.
C3_UnsafePredicateNeverExecuted ==
    \A t \in Threads :
        (req[t].endpoint = "post_selection" /\ req[t].hasPredicate
            /\ NamedUnsafe(req[t].predicate)) =>
            /\ ran[t] = <<>>
            /\ tmp[t] = 0
            /\ (pc[t] = "done" /\ ~resp[t].escaped => resp[t] = ErrorReply(400))

\* C4: the temporary file of an export_selection request exists only while
\* its handler is between the copy and the unlink; when the handler has
\* returned (successful copy, engine exception, failure reading the file
\* back) the file is gone, and with no selection in progress no temporary
\* file remains.
C4_TempFileRemoved ==
    \A f \in fs :
        \E t \in Threads : tmp[t] = f /\ pc[t] \in {"read", "unlink"}

\* a selection whose copy the engine failed has returned 500, and another
\* selection has returned its data, with no file left
C4_Witness ==
    /\ fs = {}
    /\ \E t \in Threads :
          /\ pc[t] = "done"
          /\ tmp[t] # 0
          /\ engineFailed[t]
          /\ resp[t] = ErrorReply(500)
    /\ \E t \in Threads :
          /\ pc[t] = "done"
          /\ tmp[t] # 0
          /\ resp[t] = DataReply

\* C5: any failure the query engine reports while serving execute or
\* export_selection, a failure to create the shared connection included, is
\* returned as a structured JSON error with status 500; no exception leaves
\* the handler.
C5_EngineFailureIsStructured500 ==
    \A t \in Threads :
        (pc[t] = "done" /\ engineFailed[t]) =>
            /\ ~resp[t].escaped
            /\ resp[t] = ErrorReply(500)

\* a request whose body, format or predicate is invalid
InvalidInput(r) ==
    \/ r.json = "malformed"
    \/ r.endpoint = "post_selection" /\ r.format \notin Formats
    \/ r.endpoint = "post_selection" /\ r.hasPredicate
          /\ NamedUnsafe(r.predicate)

\* C6: input validation errors are answered with 400 on every endpoint that
\* takes a body: a malformed JSON body sent to clinical-feedback, query or
\* selection, an unsupported export format and an unsafe predicate each
\* yield 400, never 500.
C6_InvalidInputIs400 ==
    /\ fbReq.json = "malformed" => fbResp.status = 400
    /\ \A t \in Threads :
          (pc[t] = "done" /\ InvalidInput(req[t])) => resp[t].status = 400

\* C7: over N concurrent first requests make_duckdb_connection is attempted
\* exactly once, also when the attempt fails, and every caller that obtains
\* a connection obtains the same one.
C7_ConnectionConstructedOnce ==
    /\ constructions <= 1
    /\ \A t \in Threads : conn[t] # 0 => conn[t] = holder

(***************************************************************************)
(* Search Orchestrator: claims                                             *)
(***************************************************************************)
\* C8: the search backend behind LazyCombinedEmbeddingPipeline is
\* constructed at most once: over any interleaving of concurrent calls the
\* constructor runs at most one time in total, whether it succeeds or fails.
C8_BackendConstructedAtMostOnce == ctorRuns <= 1

\* the constructor has failed while another caller waited for the lock, and
\* both callers have gone through _ensure_pipeline
C8_Witness ==
    /\ ctorRuns = 1
    /\ loadExc
    /\ \E c, d \in Threads :
          /\ c # d
          /\ ensured[c] = "RuntimeError"
          /\ epc[c] = "done"
          /\ ensured[d] # "none"
          /\ epc[d] = "done"
          /\ ~failedBefore[d]

\* C9: when construction of the search backend fails, every call of
\* _ensure_pipeline (the constructing caller, the callers blocked on the
\* lock meanwhile, and all later callers) fails with the one RuntimeError;
\* no caller receives a missing (None) backend or another error.
C9_FailedConstructionFailsEveryCaller ==
    \A c \in Threads :
        /\ ensured[c] # "None"
        /\ (loadExc /\ ensured[c] # "none") => ensured[c] = "RuntimeError"
        /\ (loadExc /\ stage[c] \in WrapperOps /\ outcome[c] # "none") =>
              outcome[c] = "RuntimeError"

\* C10: once the search backend has failed to initialize, the search
\* endpoints report it as 404/unavailable on every request that needs the
\* backend from then on, never as a 500.
C10_FailedBackendIs404 ==
    \A c \in Threads :
        (via[c] \in SearchEndpoints /\ epc[c] = "done" /\ failedBefore[c]
            /\ stage[c] # "none") => sresp[c].status = 404

(***************************************************************************)
(* Search endpoints: claims                                                *)
(***************************************************************************)
NeighborEndpoints == {"upload_neighbors", "text_neighbors", "point_neighbors"}

\* C11: every k that an endpoint passes to the backend's
\* find_nearest_neighbors lies in [1, max_neighbor_results], whatever k was
\* requested and however many rows the dataset has.
C11_PassedKClamped ==
    \A i \in 1..Len(passed) :
        1 <= passed[i] /\ passed[i] <= cfg.maxResults

\* the backend honours its contract: at most k entries, of distinct rows,
\* in ascending order of distance
ContractHonoured ==
    /\ Len(passed) = 1
    /\ Len(returned) <= passed[1]
    /\ \A i, j \in 1..Len(returned) :
          i < j => /\ returned[i].dist <= returned[j].dist
                   /\ returned[i].idx # returned[j].idx

Ascending(neighbors) ==
    \A i, j \in 1..Len(neighbors) :
        i < j => neighbors[i].distance <= neighbors[j].distance

AnsweredNeighbors ==
    /\ nreq.endpoint \in NeighborEndpoints
    /\ nout.status = 200
    /\ ContractHonoured

\* C12 as stated: for any requested k, a neighbor endpoint's response holds
\* at most min(k, max_neighbor_results, total_rows) neighbors (none when
\* that minimum is below 0), in ascending order of distance.
C12_CountWithinRequestedK ==
    AnsweredNeighbors =>
        /\ Len(nout.neighbors)
              <= max(0, min(min(nreq.k, cfg.maxResults), cfg.rows))
        /\ Ascending(nout.neighbors)

\* C12 as amended: with a requested k below 1 counted as 1, the response
\* holds at most min(max(1, k), max_neighbor_results, total_rows)
\* neighbors, in ascending order of distance.
C12_CountWithinClampedK ==
    AnsweredNeighbors =>
        /\ Len(nout.neighbors)
              <= min(min(max(1, nreq.k), cfg.maxResults), cfg.rows)
        /\ Ascending(nout.neighbors)

C12_Witness ==
    /\ AnsweredNeighbors
    /\ nreq.endpoint = "upload_neighbors"
    /\ nreq.k > cfg.maxResults
    /\ Len(nout.neighbors) = 2
    /\ nout.neighbors[1].distance < nout.neighbors[2].distance

\* C13: a point-neighbors response never holds a neighbor with the query
\* row's own identifier, nor an entry for a backend index that is negative
\* or not below the number of rows, whatever the backend returns.
C13_NoSelfNoOutOfRange ==
    (nreq.endpoint = "point_neighbors" /\ nout.status = 200) =>
        /\ \A i \in 1..Len(nout.neighbors) :
              /\ ToDigits(nout.neighbors[i].id) # nreq.id
              /\ \E r \in 0..(cfg.rows - 1) : nout.neighbors[i].id = 11 + r
        /\ Len(nout.neighbors) <=
              Cardinality({j \in 1..Len(returned) :
                  /\ returned[j].idx \in 0..(cfg.rows - 1)
                  /\ ToDigits(11 + returned[j].idx) # nreq.id})

C13_Witness ==
    /\ nreq.endpoint = "point_neighbors"
    /\ nout.status = 200
    /\ \E j \in 1..Len(returned) :
          /\ returned[j].idx \in 0..(cfg.rows - 1)
          /\ ToDigits(11 + returned[j].idx) = nreq.id
    /\ \E j \in 1..Len(returned) : returned[j].idx \notin 0..(cfg.rows - 1)
    /\ Len(nout.neighbors) = 0

ContractOps == {"embed_bytes", "encode_text", "find_nearest_neighbors",
                "project_vector"}

\* C14: with a backend that constructs successfully, each of embed_bytes,
\* encode_text, find_nearest_neighbors and project_vector called on the
\* wrapper gives what the backend's operation gives (its result, or the
\* error it raises), so a text-neighbors request with a non-empty query is
\* not answered 500 unless the backend itself fails.
C14_WrapperExposesEveryOperation ==
    \A c \in Threads :
        (epc[c] = "returned" /\ stage[c] \in ContractOps /\ ~loadExc) =>
            outcome[c] \in {"value", "BackendError"}

\* C15: for an uploaded-image query and a free-text query alike, the query
\* coordinate is the backend projector's when it yields coordinates, the
\* external projection model's when the projector yields none (or raises)
\* and a supplied model yields them, and null (in a 200 response) only
\* when neither does.
C15_ProjectionFallbackUniform ==
    (/\ nreq.endpoint \in {"upload_neighbors", "text_neighbors"}
     /\ nout.status = 200
     /\ Len(passed) = 1) =>
        nout.query =
            IF nreq.projected = "coords" THEN "backend"
            ELSE IF /\ nreq.projected \in {"none", "raise"}
                    /\ cfg.model
                    /\ nreq.transformed = "coords"
            THEN "model"
            ELSE "null"

\* the batch limit in force, from ATLAS_UPLOAD_BATCH_LIMIT
LimitInForce(env) ==
    IF env.set /\ env.valid
    THEN (IF env.value < 1 THEN 1 ELSE env.value)
    ELSE 64

\* the file is embedded, projected to finite coordinates and so a point
YieldsPoint(f) ==
    /\ f.read /\ f.embed /\ f.finite
    /\ \/ f.projected = "coords"
       \/ /\ f.projected \in {"none", "raise"}
          /\ cfg.model
          /\ f.transformed = "coords"

\* C16: with M = min(number of files, batch limit), exactly the first M
\* files are processed, each contributes exactly one entry to points or to
\* errors (a point exactly when nothing failed for it, whatever happened to
\* the files before it), and truncated is set exactly when more files were
\* uploaded than the limit.
C16_BatchIsolatesFailures ==
    (nreq.endpoint = "upload_embeddings" /\ nout.status = 200) =>
        LET M == min(Len(nreq.files), LimitInForce(nreq.env))
            pointLabels ==
                {nout.points[i].label : i \in 1..Len(nout.points)}
            errorLabels ==
                {nout.errors[i].label : i \in 1..Len(nout.errors)}
        IN  /\ Len(nout.points) + Len(nout.errors) = M
            /\ pointLabels \cup errorLabels = 1..M
            /\ pointLabels \cap errorLabels = {}
            /\ \A i \in 1..M : (i \in pointLabels) = YieldsPoint(nreq.files[i])
            /\ nout.truncated = (Len(nreq.files) > LimitInForce(nreq.env))

C16_Witness ==
    /\ nreq.endpoint = "upload_embeddings"
    /\ nout.status = 200
    /\ Len(nreq.files) = 2
    /\ ~nreq.files[1].embed
    /\ Len(nout.errors) = 1 /\ nout.errors[1].label = 1
    /\ Len(nout.points) = 1 /\ nout.points[1].label = 2

(***************************************************************************)
(* Asset Store: claims                                                     *)
(***************************************************************************)
\* C17: a read of a cache name returns exactly the JSON value of the last
\* write to that name (null, false, 0, {} and [] included, never 404), and
\* 404 for a name never written.
C17_CacheReadsLastWrite ==
    creq.op = "get" =>
        IF lastWrite[creq.name] = "never"
        THEN cresp.status = 404
        ELSE cresp.status = 200 /\ cresp.body = lastWrite[creq.name]

\* C18: a clinical-feedback body that is a JSON object, with writable
\* storage, is answered 200 after one journal line and its summary row
\* were appended; 500 is answered only when the storage fails, and 400
\* only for a malformed or non-object body.
C18_FeedbackStoredAnswers200 ==
    /\ (fbReq.json = "object" /\ fbReq.failure = "none") =>
          fbResp.status = 200 /\ journal >= 1 /\ csvRows >= 1
    /\ fbResp.status = 500 => fbReq.failure # "none"
    /\ fbResp.status = 400 => fbReq.json \in {"malformed", "array"}

Resolvable(i) == imageAssets[i] \in {"content", "path"}

\* C19: an image asset whose resolution fails does not abort the archive
\* export: the archive is produced and holds the metadata, the dataset and
\* every resolvable image asset.
C19_ArchiveToleratesAssetFailure ==
    archive.result # "none" =>
        /\ archive.result = "ok"
        /\ {<<"data", "metadata.json">>, <<"data", "dataset.parquet">>}
              \subseteq archive.entries
        /\ archive.images = {i \in 1..Len(imageAssets) : Resolvable(i)}

\* C20: a cache or feedback directory that is empty or does not exist is
\* no reason for the export to fail (it fails only at an image asset), and
\* the archive it returns holds data/metadata.json, marked static and
\* pointing at the embedded query engine, and data/dataset.parquet.
C20_ArchiveWithoutCacheOrFeedback ==
    /\ archive.result = "raised" => archive.failedAsset # 0
    /\ archive.result = "ok" =>
          /\ {<<"data", "metadata.json">>, <<"data", "dataset.parquet">>}
                \subseteq archive.entries
          /\ archive.isStatic
          /\ archive.database = "wasm"
          /\ (~dirs.cache => \A e \in archive.entries : e[1] # "data/cache")
          /\ (~dirs.feedback =>
                 \A e \in archive.entries : e[1] # "data/feedback")

C20_Witness ==
    /\ archive.result = "ok"
    /\ ~dirs.cache
    /\ ~dirs.feedback

C29_UnknownTypeNotExecuted ==
    \A t \in Threads :
        (req[t].endpoint \in QueryEndpoints /\ req[t].json = "object"
            /\ req[t].type \notin QueryTypes) =>
            /\ ran[t] = <<>>
            /\ pc[t] = "done" => resp[t].status # 200

(***************************************************************************)
(* point-neighbors: hasMore                                                *)
(***************************************************************************)
\* the dataset rows, other than the query row, that the response leaves out
LeftOut ==
    {r \in 0..(cfg.rows - 1) :
        /\ ToDigits(11 + r) # nreq.id
        /\ \A i \in 1..Len(nout.neighbors) : nout.neighbors[i].id # 11 + r}

C21_UnresolvableImageIs404 ==
    imgReq # 0 =>
        IF get_image_asset(imgReq) \in {"content", "path"}
        THEN imgResp = [status |-> 200, body |-> imgReq, escaped |-> FALSE]
        ELSE imgResp = NotFound

(***************************************************************************)
(* ImageAsset.load: claims                                                 *)
(***************************************************************************)
\* C26: under every interleaving of concurrent load() calls on a path asset
\* whose file does not change, also when a caller sees content memoized and
\* mime not yet, every call returns the same (bytes, mime) pair, the
\* memoized fields equal that pair, and a load() that starts once the
\* content is memoized does not read the file.
C26_LoadRaceIsBenign ==
    /\ \A t, u \in Threads :
          (lret[t] # <<>> /\ lret[u] # <<>>) => lret[t] = lret[u]
    /\ \A t \in Threads :
          lret[t] # <<>> =>
              /\ lret[t][1].content = diskFile
              /\ lret[t][1].mime # ""
              /\ imageAsset.mime # "" => lret[t][1].mime = imageAsset.mime
              /\ imageAsset.content = <<lret[t][1].content>>
    /\ imageAsset.content # <<>> => imageAsset.content = <<diskFile>>
    /\ \A t \in Threads : lmemo[t] => lreads[t] = 0 /\ lpc[t] # "read"

\* one caller returns from the first branch while the other has stored the
\* content and not yet the mime
C26_Witness ==
    \E t, u \in Threads :
        /\ lpc[u] = "set_mime"
        /\ imageAsset.content # <<>>
        /\ imageAsset.mime = ""
        /\ lmemo[t]
        /\ lret[t] # <<>>
        /\ lret[t][1].mime = "image/gif"

(***************************************************************************)
(* Image Codec: claims                                                     *)
(***************************************************************************)
UniqueIds ==
    \A i, j \in 1..Len(frame0) : i # j => frame0[i].id # frame0[j].id

Columns == {ColumnOrder[c] : c \in 1..Len(ColumnOrder)}

\* the registered names of a column that belong to a row identifier: the
\* identifier followed by an extension
NamesOf(column, id) ==
    {key \in DOMAIN registry :
        /\ key[1] = column
        /\ startswith(key[2], ToDigits(id) \o <<".">>)}

TokenCells ==
    {<<r, column>> \in (1..Len(frame)) \X Columns :
        frame[r].cells[column].type = "token"}

ResolvedBytes(asset) ==
    IF asset.content # <<>> THEN asset.content[1] ELSE asset.path[1].file

\* the bytes a cell holds, encodes or names
SourceBytes(value) == value.data

\* C23: every asset the codec registers resolves to bytes that begin with
\* one of the known magic numbers (PNG, JPEG, GIF87a, GIF89a, BMP, TIFF of
\* either byte order); a cell whose bytes, inline or behind a path, begin
\* with none of them gets no token and no asset.
C23_RegisteredAssetsSniff ==
    extracted =>
        /\ \A key \in DOMAIN registry :
              detect_image_type(ResolvedBytes(registry[key]))
                  # "application/octet-stream"
        /\ \A r \in 1..Len(frame) : \A column \in Columns :
              (/\ frame0[r].cells[column].type \notin {"none", "text"}
               /\ detect_image_type(SourceBytes(frame0[r].cells[column]))
                     = "application/octet-stream") =>
                  frame[r].cells[column] = frame0[r].cells[column]

(***************************************************************************)
(* feedback critical section: claims                                       *)
(***************************************************************************)
\* between starting to persist the query images and the end of the journal
\* append
InSection(t) == jpc[t] \in {"persist", "mkdir", "record", "newline"}

\* C25: for any number of concurrent callers at most one is at any time
\* between starting to persist query images and finishing the journal
\* append, so the journal consists of whole lines in some order, none
\* interleaved with another; and append_feedback creates the feedback
\* directory when it does not exist.
C25_FeedbackWritesExclusive ==
    /\ Cardinality({t \in Threads : InSection(t)}) <= 1
    /\ \A t \in Threads : InSection(t) => feedbackLock = t
    /\ \A i \in 1..Len(jsonl) :
          IF jsonl[i][2] = "record"
          THEN IF i < Len(jsonl)
               THEN jsonl[i + 1] = <<jsonl[i][1], "newline">>
               ELSE jpc[jsonl[i][1]] = "newline"
          ELSE i > 1 /\ jsonl[i - 1] = <<jsonl[i][1], "record">>
    /\ \A t \in Threads : jpc[t] \in {"record", "newline", "csv"} => fbDir
    /\ jsonl # <<>> => fbDir

\* one caller is between the two writes of its line while the other, whose
\* line is already in the journal, waits for the lock
C25_Witness ==
    \E t, u \in Threads :
        /\ jpc[t] = "newline"
        /\ jpc[u] = "lock"
        /\ persisted = {}
        /\ Len(jsonl) = 3
        /\ jsonl[1][1] = u
        /\ jsonl[3][1] = t

(***************************************************************************)
(* event loop: claims                                                      *)
(***************************************************************************)
\* C27: blocking work (query execution, archive building, image resolution,
\* embedding inference) never runs on the path that accepts requests: each
\* is run by a worker of the bounded pool, so while one is running the event
\* loop is free to accept another request.
C27_BlockingWorkOffTheLoop ==
    /\ ~loopTask.blocking
    /\ \A w \in Threads : poolTasks[w] \in BlockingEndpoints \cup {"idle"}
====
